---- MODULE Spec2Model ----
(***************************************************************************)
(* Model of the pure-dupes duplicate-detection engine                      *)
(* (main_wasm_enhanced.go, phash.go).                                      *)
(*                                                                         *)
(* Byte strings are sequences of symbols (naturals); one symbol stands for *)
(* one digest-sized block of bytes, so a digest is a one-symbol string and *)
(* a chunk size is counted in blocks.  SHA-256 is modelled as an injective *)
(* function from byte strings to digests.  float64 values are modelled as  *)
(* exact fractions [n, d]; on the inputs drawn here every float operation  *)
(* of the code is exact or rounds to the same comparison outcome.          *)
(***************************************************************************)
EXTENDS Integers, Sequences, FiniteSets, TLC

VARIABLES
    pc,           \* position of FindDuplicates in its stage sequence
    files,        \* []JSFile handed to FindDuplicates
    threshold,    \* similarity threshold argument, a fraction [n, d]
    chunkSize,    \* chunk size argument
    fileTrees,    \* []FileTree, filled one ProcessFile call at a time
    filesByRoot,  \* map[hex root] -> list of indices into fileTrees
    exactDups,    \* ExactDupsResult
    partialDups,  \* PartialDupsResult
    visualDups,   \* map[path] -> []DuplicateMatch of findVisualDuplicates
    smartGroups,  \* []DuplicateGroup of CreateSmartGroups
    result,       \* DedupResult, or the error value analyzeFiles returns
    progressCallback, \* the package-level variable progressCallback
    callLog,      \* per analyzeFiles call so far: number of arguments and
                  \* the callback argument
    delivered,    \* the progress events invoked on callbacks so far
    wasmLoad,     \* wasm-worker.js: how far the top-level script and the
                  \* fetch/instantiate promise chain have got
    wasmReady,    \* wasm-worker.js: the flag wasmReady
    workerPc,     \* wasm-worker.js: "idle", or "calling" while the message
                  \* handler is inside analyzeFiles
    requests,     \* the 'analyze' messages dispatched to the worker so far
    posted,       \* the messages the worker has posted so far
    fsTree,       \* reference/main.go: the directory tree on disk, path -> kind
    maxDepth,     \* reference/main.go: the maxDepth argument of the scan
    walkTodo,     \* the paths filepath.Walk has still to hand to its callback
    scanned,      \* the slice files of ScanDirectoryThunk
    thunks,       \* ParallelRunThunks: the value each thunk computes
    numWorkersArg, \* ParallelRunThunks: numWorkers as passed by the caller
    numWorkers,   \* ParallelRunThunks: the variable numWorkers
    results,      \* ParallelRunThunks: the slice results
    jobs,         \* ParallelRunThunks: the buffer of the channel jobs
    jobsClosed,   \* whether close(jobs) has been executed
    wg,           \* the counter of the WaitGroup
    mainPc,       \* position of the goroutine that called ParallelRunThunks
    workerState,  \* per started worker goroutine: position and current idx
    ran,          \* per thunk: how many times RunThunk was applied to it
    writers,      \* per slot of results: the workers that assigned it
    stdin,        \* mcp-server.go: the JSON values not yet decoded
    decErr,       \* the error the json.Decoder holds on to, or "none"
    stdout,       \* the responses encoded so far
    mcpPc,        \* position of main: "loop" or "shutdown"
    served,       \* the requests decoded so far, in order
    logged        \* number of "Error decoding request" lines written

vars == <<pc, files, threshold, chunkSize, fileTrees, filesByRoot,
          exactDups, partialDups, visualDups, smartGroups, result,
          progressCallback, callLog, delivered,
          wasmLoad, wasmReady, workerPc, requests, posted,
          fsTree, maxDepth, walkTodo, scanned,
          thunks, numWorkersArg, numWorkers, results, jobs, jobsClosed, wg,
          mainPc, workerState, ran, writers,
          stdin, decErr, stdout, mcpPc, served, logged>>

\* The state of the programs around the engine, which no step of
\* FindDuplicates touches.
workerVars == <<wasmLoad, wasmReady, workerPc, requests, posted>>
scanVars == <<fsTree, maxDepth, walkTodo, scanned>>
parVars == <<thunks, numWorkersArg, numWorkers, results, jobs, jobsClosed,
             wg, mainPc, workerState, ran, writers>>
mcpVars == <<stdin, decErr, stdout, mcpPc, served, logged>>
hostVars == <<workerVars, scanVars, parVars, mcpVars>>

\* That state before any of those programs has started.
WorkerIdle ==
    /\ wasmLoad = "importing"
    /\ wasmReady = FALSE
    /\ workerPc = "idle"
    /\ requests = <<>>
    /\ posted = <<>>

ScanIdle ==
    /\ fsTree = <<>>
    /\ maxDepth = 0
    /\ walkTodo = <<>>
    /\ scanned = <<>>

ParIdle ==
    /\ thunks = <<>>
    /\ numWorkersArg = 1
    /\ numWorkers = 1
    /\ results = <<>>
    /\ jobs = <<>>
    /\ jobsClosed = FALSE
    /\ wg = 0
    /\ mainPc = "idle"
    /\ workerState = <<>>
    /\ ran = <<>>
    /\ writers = <<>>

McpIdle ==
    /\ stdin = <<>>
    /\ decErr = "none"
    /\ stdout = <<>>
    /\ mcpPc = "idle"
    /\ served = <<>>
    /\ logged = 0

HostIdle ==
    /\ WorkerIdle
    /\ ScanIdle
    /\ ParIdle
    /\ McpIdle

----------------------------------------------------------------------------
(* Bounds *)

MaxFiles == 3

MaxCalls == 2
MaxRequests == 3
MaxScanDepth == 3
MaxThunks == 3
MaxWorkers == 2
MaxInput == 3
MaxLogged == 3

----------------------------------------------------------------------------
(* Generic helpers of the source *)

EmptyMap == [k \in {} |-> <<>>]

Range(s) == {s[i] : i \in 1..Len(s)}

\* All orders in which a Go map with key set S may be ranged over.
RECURSIVE Perms(_)
Perms(S) ==
    IF S = {} THEN {<<>>}
    ELSE UNION {{<<x>> \o p : p \in Perms(S \ {x})} : x \in S}

\* Fractions standing for float64 values.
Frac(n, d) == [n |-> n, d |-> d]
FracGE(a, b) == a.n * b.d >= b.n * a.d
FracLT(a, b) == a.n * b.d < b.n * a.d
FracEQ(a, b) == a.n * b.d = b.n * a.d
\* int64(float64(x) * f): truncation of the product.
TruncMul(x, f) == (x * f.n) \div f.d

----------------------------------------------------------------------------
(* SHA-256, the digest monoid and hex encoding *)

\* An injective pairing of two naturals.
PairCode(x, y) == IF x >= y THEN x * x + x + y ELSE y * y + x

\* sha256 of a byte string: injective on strings of at most two blocks, which
\* is every chunk and every concatenation of two digests of the model.
H(s) ==
    IF Len(s) = 0 THEN <<0>>
    ELSE IF Len(s) = 1 THEN <<1 + PairCode(s[1], 0)>>
    ELSE <<1 + PairCode(s[1], s[2] + 1)>>

HashLeaf(data) == H(data)

SHA256Empty == <<>>
SHA256Combine(a, b) == H(a \o b)

\* hex.EncodeToString: two hex digits per input unit.
RECURSIVE HexEncode(_)
HexEncode(b) ==
    IF b = <<>> THEN <<>>
    ELSE <<b[1] \div 16, b[1] % 16>> \o HexEncode(Tail(b))

----------------------------------------------------------------------------
(* Merkle tree *)

Leaf(h) == [Hash |-> h, IsLeaf |-> TRUE, Children |-> <<>>]

\* Variant of the FoldLeft of pairwiseFold that pairs an unpaired last
\* digest with itself.
RECURSIVE pairwiseFoldAcc_DuplicateLast(_, _, _, _)
pairwiseFoldAcc_DuplicateLast(hashes, i, nodes, pending) ==
    IF i > Len(hashes)
    THEN IF pending # <<>>
         THEN Append(nodes,
                     [Hash     |-> SHA256Combine(pending[1], pending[1]),
                      IsLeaf   |-> FALSE,
                      Children |-> <<Leaf(pending[1]), Leaf(pending[1])>>])
         ELSE nodes
    ELSE IF pending = <<>>
         THEN pairwiseFoldAcc_DuplicateLast(hashes, i + 1, nodes, <<hashes[i]>>)
         ELSE pairwiseFoldAcc_DuplicateLast(hashes, i + 1,
                  Append(nodes,
                         [Hash     |-> SHA256Combine(pending[1], hashes[i]),
                          IsLeaf   |-> FALSE,
                          Children |-> <<Leaf(pending[1]), Leaf(hashes[i])>>]),
                  <<>>)

\* The FoldLeft of pairwiseFold: pending is <<>> (Nothing) or <<h>> (Just h).
RECURSIVE pairwiseFoldAcc(_, _, _, _)
pairwiseFoldAcc(hashes, i, nodes, pending) ==
    IF i > Len(hashes)
    THEN IF pending # <<>> THEN Append(nodes, Leaf(pending[1])) ELSE nodes
    ELSE IF pending = <<>>
         THEN pairwiseFoldAcc(hashes, i + 1, nodes, <<hashes[i]>>)
         ELSE pairwiseFoldAcc(hashes, i + 1,
                  Append(nodes,
                         [Hash     |-> SHA256Combine(pending[1], hashes[i]),
                          IsLeaf   |-> FALSE,
                          Children |-> <<Leaf(pending[1]), Leaf(hashes[i])>>]),
                  <<>>)

pairwiseFold(hashes) == pairwiseFoldAcc(hashes, 1, <<>>, <<>>)

\* Variant of BuildMerkleTree that leaves the children of the upper tree in
\* place instead of overwriting them with pairs.
RECURSIVE BuildMerkleTree_KeepUpperChildren(_)
BuildMerkleTree_KeepUpperChildren(hashes) ==
    IF Len(hashes) = 0 THEN Leaf(SHA256Empty)
    ELSE IF Len(hashes) = 1 THEN Leaf(hashes[1])
    ELSE LET pairs == pairwiseFold(hashes)
         IN  IF Len(pairs) = 1 THEN pairs[1]
             ELSE BuildMerkleTree_KeepUpperChildren(
                      [i \in 1..Len(pairs) |-> pairs[i].Hash])

RECURSIVE BuildMerkleTree(_)
BuildMerkleTree(hashes) ==
    IF Len(hashes) = 0 THEN Leaf(SHA256Empty)
    ELSE IF Len(hashes) = 1 THEN Leaf(hashes[1])
    ELSE LET pairs == pairwiseFold(hashes)
         IN  IF Len(pairs) = 1 THEN pairs[1]
             ELSE LET parentHashes == [i \in 1..Len(pairs) |-> pairs[i].Hash]
                      upperTree    == BuildMerkleTree(parentHashes)
                  IN  [upperTree EXCEPT !.Children = pairs]

RECURSIVE collectLeaves(_)
RECURSIVE collectLeavesOf(_, _)
collectLeaves(node) ==
    IF node.IsLeaf THEN <<node.Hash>>
    ELSE collectLeavesOf(node.Children, 1)
collectLeavesOf(children, i) ==
    IF i > Len(children) THEN <<>>
    ELSE collectLeaves(children[i]) \o collectLeavesOf(children, i + 1)

----------------------------------------------------------------------------
(* File processing *)

\* strings.ToLower(filepath.Ext(path)) on the extensions of the model.
LowerExt(path) ==
    CASE path.ext = ".JPG" -> ".jpg"
      [] path.ext = ".MP4" -> ".mp4"
      [] OTHER -> path.ext

isImageFile(path) == LowerExt(path) \in {".jpg", ".jpeg", ".png", ".gif"}

isVideoFile(path) == LowerExt(path) \in {".mov", ".mp4", ".webm", ".avi", ".m4v"}

\* computePHash: the decoded fingerprint of the image contents of the model,
\* a 64-bit value given as the set of its one-bits; [err |-> TRUE] when
\* image.Decode fails.
computePHash(data) ==
    CASE data = <<1, 1, 1, 1, 2>> -> [err |-> FALSE, hash |-> {0}]
      [] data = <<1, 1, 1, 1, 3>> -> [err |-> FALSE, hash |-> 0..9]
      [] data = <<5>>             -> [err |-> FALSE, hash |-> 0..18]
      [] data = <<6>>             -> [err |-> FALSE, hash |-> 0..18]
      [] OTHER -> [err |-> TRUE, hash |-> {}]

\* The chunking loop of ProcessFile.
RECURSIVE ChunkLoop(_, _, _)
ChunkLoop(data, i, size) ==
    IF i >= Len(data) THEN <<>>
    ELSE LET end == IF i + size > Len(data) THEN Len(data) ELSE i + size
         IN  <<SubSeq(data, i + 1, end)>> \o ChunkLoop(data, i + size, size)

ProcessFile(file, size) ==
    LET chunks    == ChunkLoop(file.Data, 0, size)
        hashes    == [i \in 1..Len(chunks) |-> HashLeaf(chunks[i])]
        tree      == BuildMerkleTree(hashes)
        leafBytes == collectLeaves(tree)
        isImage   == isImageFile(file.Path)
        ph        == computePHash(file.Data)
        isVideo   == isVideoFile(file.Path)
    IN  [Path       |-> file.Path,
         Root       |-> tree.Hash,
         Tree       |-> tree,
         Size       |-> file.Size,
         ChunkCount |-> Len(chunks),
         Leaves     |-> [i \in 1..Len(leafBytes) |-> HexEncode(leafBytes[i])],
         PHash      |-> IF isImage /\ ~ph.err THEN ph.hash ELSE {},
         IsImage    |-> isImage,
         VideoHash  |-> IF isVideo /\ Len(file.VideoFrameHashes) > 0
                        THEN file.VideoFrameHashes ELSE <<>>,
         IsVideo    |-> isVideo]

----------------------------------------------------------------------------
(* Exact duplicates *)

\* Variant of GroupByAcc that puts each record in front of its list.
RECURSIVE GroupByAcc_Prepend(_, _, _)
GroupByAcc_Prepend(fts, i, acc) ==
    IF i > Len(fts) THEN acc
    ELSE LET k == HexEncode(fts[i].Root)
         IN  GroupByAcc_Prepend(fts, i + 1,
                 IF k \in DOMAIN acc
                 THEN [acc EXCEPT ![k] = <<i>> \o @]
                 ELSE acc @@ (k :> <<i>>))

\* GroupBy(fileTrees, hex root): the FoldLeft that appends each record to the
\* list under its key.  Records are held by their index into fileTrees.
RECURSIVE GroupByAcc(_, _, _)
GroupByAcc(fts, i, acc) ==
    IF i > Len(fts) THEN acc
    ELSE LET k == HexEncode(fts[i].Root)
         IN  GroupByAcc(fts, i + 1,
                 IF k \in DOMAIN acc
                 THEN [acc EXCEPT ![k] = Append(@, i)]
                 ELSE acc @@ (k :> <<i>>))

GroupBy(fts) == GroupByAcc(fts, 1, EmptyMap)

ExactMatch(src, tgt) ==
    [TargetPath |-> tgt.Path,
     Similarity |-> Frac(1, 1),
     SharedSize |-> src.Size,
     MatchType  |-> "exact"]

\* Variant of ExactMatchesOf without the test src.Path != tgt.Path.
RECURSIVE ExactMatchesOf_WithSelf(_, _, _, _)
ExactMatchesOf_WithSelf(fts, group, src, j) ==
    IF j > Len(group) THEN <<>>
    ELSE <<ExactMatch(src, fts[group[j]])>>
         \o ExactMatchesOf_WithSelf(fts, group, src, j + 1)

\* The inner FoldLeft of processExactDuplicates: the matches of src in group.
RECURSIVE ExactMatchesOf(_, _, _, _)
ExactMatchesOf(fts, group, src, j) ==
    IF j > Len(group) THEN <<>>
    ELSE LET tgt == fts[group[j]]
         IN  (IF src.Path # tgt.Path THEN <<ExactMatch(src, tgt)>> ELSE <<>>)
             \o ExactMatchesOf(fts, group, src, j + 1)

\* Variant of ExactSrcLoop that counts one per match instead of one per file.
RECURSIVE ExactSrcLoop_CountEdges(_, _, _, _)
ExactSrcLoop_CountEdges(fts, group, i, acc) ==
    IF i > Len(group) THEN acc
    ELSE LET src     == fts[group[i]]
             matches == ExactMatchesOf(fts, group, src, 1)
         IN  ExactSrcLoop_CountEdges(fts, group, i + 1,
                 IF Len(matches) > 0
                 THEN [matches |-> [p \in DOMAIN acc.matches \cup {src.Path} |->
                                       IF p = src.Path THEN matches
                                       ELSE acc.matches[p]],
                       count   |-> acc.count + Len(matches),
                       saved   |-> IF src.Path \notin acc.processedPaths
                                   THEN acc.saved + src.Size ELSE acc.saved,
                       processedPaths |-> acc.processedPaths \cup {src.Path}]
                 ELSE acc)

\* The "for _, src := range group" loop of processExactDuplicates.
RECURSIVE ExactSrcLoop(_, _, _, _)
ExactSrcLoop(fts, group, i, acc) ==
    IF i > Len(group) THEN acc
    ELSE LET src     == fts[group[i]]
             matches == ExactMatchesOf(fts, group, src, 1)
         IN  ExactSrcLoop(fts, group, i + 1,
                 IF Len(matches) > 0
                 THEN [matches |-> [p \in DOMAIN acc.matches \cup {src.Path} |->
                                       IF p = src.Path THEN matches
                                       ELSE acc.matches[p]],
                       count   |-> acc.count + 1,
                       saved   |-> IF src.Path \notin acc.processedPaths
                                   THEN acc.saved + src.Size ELSE acc.saved,
                       processedPaths |-> acc.processedPaths \cup {src.Path}]
                 ELSE acc)

\* The outer FoldLeft over the groups of more than one record, taken in the
\* order the map happened to be ranged over.
RECURSIVE ExactGroupFold(_, _, _, _, _)
ExactGroupFold(fts, byRoot, order, j, acc) ==
    IF j > Len(order) THEN acc
    ELSE ExactGroupFold(fts, byRoot, order, j + 1,
             ExactSrcLoop(fts, byRoot[order[j]], 1, acc))

DuplicateKeys(byRoot) == {k \in DOMAIN byRoot : Len(byRoot[k]) > 1}

\* ExactDupsResult; its groups field is never read by FindDuplicates and is
\* left out.
processExactDuplicates(fts, byRoot, order) ==
    LET r == ExactGroupFold(fts, byRoot, order, 1,
                 [matches |-> EmptyMap, count |-> 0, saved |-> 0,
                  processedPaths |-> {}])
    IN  [allMatches   |-> r.matches,
         fullDupCount |-> r.count,
         spaceSaved   |-> r.saved]

----------------------------------------------------------------------------
(* Chunk index and partial duplicates *)

\* MapMonoid(SliceMonoid).Combine: union of two maps of lists, the lists under
\* a shared key concatenated, a's first.
MapCombine(a, b) ==
    [k \in DOMAIN a \cup DOMAIN b |->
        IF k \in DOMAIN a /\ k \in DOMAIN b THEN a[k] \o b[k]
        ELSE IF k \in DOMAIN a THEN a[k] ELSE b[k]]

\* Position of the first record with the path of target (the source returns -1
\* when there is none; positions here count from 1 and 0 stands for -1).
findFileIndex(fts, target) ==
    IF \E i \in 1..Len(fts) : fts[i].Path = target.Path
    THEN CHOOSE i \in 1..Len(fts) :
            /\ fts[i].Path = target.Path
            /\ \A j \in 1..(i - 1) : fts[j].Path # target.Path
    ELSE 0

\* FoldMap(files, indexMonoid, ...): each file contributes one entry per
\* distinct leaf, and the contributions are combined in file order.
RECURSIVE BuildChunkIndexAcc(_, _, _)
BuildChunkIndexAcc(fts, i, acc) ==
    IF i > Len(fts) THEN acc
    ELSE LET fileIdx == findFileIndex(fts, fts[i])
             perFile == [d \in Range(fts[i].Leaves) |-> <<fileIdx>>]
         IN  BuildChunkIndexAcc(fts, i + 1, MapCombine(acc, perFile))

BuildChunkIndex(fts) == BuildChunkIndexAcc(fts, 1, EmptyMap)

\* acc[targetIdx]++ for every target listed under one chunk.
RECURSIVE CountTargets(_, _, _)
CountTargets(targets, j, acc) ==
    IF j > Len(targets) THEN acc
    ELSE CountTargets(targets, j + 1,
             IF targets[j] \in DOMAIN acc
             THEN [acc EXCEPT ![targets[j]] = @ + 1]
             ELSE acc @@ (targets[j] :> 1))

\* Variant of CountMapAcc that counts a digest repeated in the source once.
RECURSIVE CountMapAcc_SkipRepeats(_, _, _, _)
CountMapAcc_SkipRepeats(leaves, chunkIndex, i, acc) ==
    IF i > Len(leaves) THEN acc
    ELSE CountMapAcc_SkipRepeats(leaves, chunkIndex, i + 1,
             IF /\ leaves[i] \in DOMAIN chunkIndex
                /\ \A k \in 1..(i - 1) : leaves[k] # leaves[i]
             THEN CountTargets(chunkIndex[leaves[i]], 1, acc)
             ELSE acc)

RECURSIVE CountMapAcc(_, _, _, _)
CountMapAcc(leaves, chunkIndex, i, acc) ==
    IF i > Len(leaves) THEN acc
    ELSE CountMapAcc(leaves, chunkIndex, i + 1,
             IF leaves[i] \in DOMAIN chunkIndex
             THEN CountTargets(chunkIndex[leaves[i]], 1, acc)
             ELSE acc)

\* Variant of FindCandidates whose bound is the product rounded up.
FindCandidates_RoundUp(sourceFile, chunkIndex, thr) ==
    LET countMap        == CountMapAcc(sourceFile.Leaves, chunkIndex, 1, EmptyMap)
        minSharedChunks == (Len(sourceFile.Leaves) * thr.n + thr.d - 1) \div thr.d
    IN  [k \in {t \in DOMAIN countMap : countMap[t] >= minSharedChunks} |->
            countMap[k]]

FindCandidates(sourceFile, chunkIndex, thr) ==
    LET countMap        == CountMapAcc(sourceFile.Leaves, chunkIndex, 1, EmptyMap)
        minSharedChunks == TruncMul(Len(sourceFile.Leaves), thr)
    IN  [k \in {t \in DOMAIN countMap : countMap[t] >= minSharedChunks} |->
            countMap[k]]

RECURSIVE CountMatches(_, _, _)
CountMatches(leaves, setB, i) ==
    IF i > Len(leaves) THEN 0
    ELSE (IF leaves[i] \in setB THEN 1 ELSE 0) + CountMatches(leaves, setB, i + 1)

\* Variant of CompareFiles that divides by the length of b.
CompareFiles_ByTargetLen(a, b) ==
    IF HexEncode(a.Root) = HexEncode(b.Root) THEN Frac(1, 1)
    ELSE IF Len(a.Leaves) = 0 \/ Len(b.Leaves) = 0 THEN Frac(0, 1)
    ELSE Frac(CountMatches(a.Leaves, Range(b.Leaves), 1), Len(b.Leaves))

\* CompareFiles: 1.0 on equal roots, 0.0 when a leaf list is empty, else the
\* number of leaves of a found in the leaf set of b over the length of a.
CompareFiles(a, b) ==
    IF HexEncode(a.Root) = HexEncode(b.Root) THEN Frac(1, 1)
    ELSE IF Len(a.Leaves) = 0 \/ Len(b.Leaves) = 0 THEN Frac(0, 1)
    ELSE Frac(CountMatches(a.Leaves, Range(b.Leaves), 1), Len(a.Leaves))

\* Variant of PartialMatchFold with "similarity <= 1.0".
RECURSIVE PartialMatchFold_AllowOne(_, _, _, _, _, _)
PartialMatchFold_AllowOne(fts, src, srcIdx, thr, order, j) ==
    IF j > Len(order) THEN <<>>
    ELSE LET targetIdx  == order[j]
             tgt        == fts[targetIdx]
             similarity == CompareFiles(src, tgt)
             rest       == PartialMatchFold_AllowOne(fts, src, srcIdx, thr, order, j + 1)
         IN  IF targetIdx = srcIdx THEN rest
             ELSE IF HexEncode(src.Root) = HexEncode(tgt.Root) THEN rest
             ELSE IF FracGE(similarity, thr)
                  THEN <<[TargetPath |-> tgt.Path,
                          Similarity |-> similarity,
                          SharedSize |-> TruncMul(src.Size, similarity),
                          MatchType  |-> "partial"]>> \o rest
                  ELSE rest

\* The inner FoldLeft of processPartialDuplicates over the candidates of src,
\* taken in the order the candidate map happened to be ranged over.
RECURSIVE PartialMatchFold(_, _, _, _, _, _)
PartialMatchFold(fts, src, srcIdx, thr, order, j) ==
    IF j > Len(order) THEN <<>>
    ELSE LET targetIdx  == order[j]
             tgt        == fts[targetIdx]
             similarity == CompareFiles(src, tgt)
             rest       == PartialMatchFold(fts, src, srcIdx, thr, order, j + 1)
         IN  IF targetIdx = srcIdx THEN rest
             ELSE IF HexEncode(src.Root) = HexEncode(tgt.Root) THEN rest
             ELSE IF FracGE(similarity, thr) /\ FracLT(similarity, Frac(1, 1))
                  THEN <<[TargetPath |-> tgt.Path,
                          Similarity |-> similarity,
                          SharedSize |-> TruncMul(src.Size, similarity),
                          MatchType  |-> "partial"]>> \o rest
                  ELSE rest

\* Every match list the inner fold can produce for the record at srcIdx.
PartialMatchLists(fts, chunkIndex, srcIdx, thr) ==
    LET src        == fts[srcIdx]
        candidates == FindCandidates(src, chunkIndex, thr)
    IN  {PartialMatchFold(fts, src, findFileIndex(fts, src), thr, order, 1) :
            order \in Perms(DOMAIN candidates)}

\* The outer FoldLeft over candidateFiles; yields every PartialAcc the stage
\* can end with.
RECURSIVE PartialFold(_, _, _, _, _, _)
PartialFold(fts, chunkIndex, thr, candidateFiles, j, acc) ==
    IF j > Len(candidateFiles) THEN {acc}
    ELSE LET srcIdx == candidateFiles[j]
             src    == fts[srcIdx]
         IN  UNION {PartialFold(fts, chunkIndex, thr, candidateFiles, j + 1,
                        IF Len(matches) > 0
                        THEN [matches |-> [p \in DOMAIN acc.matches \cup {src.Path} |->
                                              IF p = src.Path THEN matches
                                              ELSE acc.matches[p]],
                              count   |-> acc.count + 1]
                        ELSE acc) :
                    matches \in PartialMatchLists(fts, chunkIndex, srcIdx, thr)}

\* Variant of processPartialDuplicates that keeps every record as a source.
processPartialDuplicates_NoExclusion(fts, exactMatches, thr) ==
    LET chunkIndex     == BuildChunkIndex(fts)
        candidateFiles == [i \in 1..Len(fts) |-> i]
    IN  {[allMatches |-> r.matches, partialDupCount |-> r.count] :
            r \in PartialFold(fts, chunkIndex, thr, candidateFiles, 1,
                      [matches |-> EmptyMap, count |-> 0])}

\* Every PartialDupsResult processPartialDuplicates can return.
processPartialDuplicates(fts, exactMatches, thr) ==
    LET chunkIndex     == BuildChunkIndex(fts)
        candidateFiles == SelectSeq([i \in 1..Len(fts) |-> i],
                              LAMBDA i : fts[i].Path \notin DOMAIN exactMatches)
    IN  {[allMatches |-> r.matches, partialDupCount |-> r.count] :
            r \in PartialFold(fts, chunkIndex, thr, candidateFiles, 1,
                      [matches |-> EmptyMap, count |-> 0])}

----------------------------------------------------------------------------
(* Visual duplicates *)

\* Number of one-bits of hash1 XOR hash2.
hammingDistance(hash1, hash2) ==
    Cardinality((hash1 \ hash2) \cup (hash2 \ hash1))

hashSimilarity(hash1, hash2) == Frac(64 - hammingDistance(hash1, hash2), 64)

\* Variant of VisualMatch with the kind of the literal of
\* processExactDuplicates.
VisualMatch_KindExact(src, tgt, similarity) ==
    [TargetPath |-> tgt.Path,
     Similarity |-> similarity,
     SharedSize |-> src.Size,
     MatchType  |-> "exact"]

VisualMatch(src, tgt, similarity) ==
    [TargetPath |-> tgt.Path,
     Similarity |-> similarity,
     SharedSize |-> src.Size,
     MatchType  |-> "visual"]

\* append(matches[path], m)
AppendAt(matches, path, m) ==
    [p \in DOMAIN matches \cup {path} |->
        IF p = path
        THEN (IF path \in DOMAIN matches THEN Append(matches[path], m) ELSE <<m>>)
        ELSE matches[p]]

\* Variant of VisualLoop that records a pair in the list of src only.
RECURSIVE VisualLoop_SourceOnly(_, _, _, _, _)
VisualLoop_SourceOnly(imageFiles, thr, i, j, matches) ==
    IF i > Len(imageFiles) THEN matches
    ELSE IF j > Len(imageFiles)
         THEN VisualLoop_SourceOnly(imageFiles, thr, i + 1, 1, matches)
    ELSE IF i >= j THEN VisualLoop_SourceOnly(imageFiles, thr, i, j + 1, matches)
    ELSE LET src        == imageFiles[i]
             tgt        == imageFiles[j]
             similarity == hashSimilarity(src.PHash, tgt.PHash)
         IN  VisualLoop_SourceOnly(imageFiles, thr, i, j + 1,
                 IF FracGE(similarity, thr)
                 THEN AppendAt(matches, src.Path, VisualMatch(src, tgt, similarity))
                 ELSE matches)

\* The two nested range loops of findVisualDuplicates.
RECURSIVE VisualLoop(_, _, _, _, _)
VisualLoop(imageFiles, thr, i, j, matches) ==
    IF i > Len(imageFiles) THEN matches
    ELSE IF j > Len(imageFiles) THEN VisualLoop(imageFiles, thr, i + 1, 1, matches)
    ELSE IF i >= j THEN VisualLoop(imageFiles, thr, i, j + 1, matches)
    ELSE LET src        == imageFiles[i]
             tgt        == imageFiles[j]
             similarity == hashSimilarity(src.PHash, tgt.PHash)
         IN  VisualLoop(imageFiles, thr, i, j + 1,
                 IF FracGE(similarity, thr)
                 THEN AppendAt(AppendAt(matches, src.Path,
                                        VisualMatch(src, tgt, similarity)),
                               tgt.Path, VisualMatch(tgt, src, similarity))
                 ELSE matches)

findVisualDuplicates(media, thr) ==
    LET imageFiles == SelectSeq(media, LAMBDA ft : ft.IsImage /\ ft.PHash # {})
    IN  VisualLoop(imageFiles, thr, 1, 1, EmptyMap)

\* Paths of the records in groups of more than one record (FindDuplicates).
\* Variant of FilesInExactGroups that marks the first record of a group only.
FilesInExactGroups_FirstOnly(fts, byRoot) ==
    {fts[byRoot[k][1]].Path : k \in DuplicateKeys(byRoot)}

FilesInExactGroups(fts, byRoot) ==
    {fts[i].Path : i \in UNION {Range(byRoot[k]) : k \in DuplicateKeys(byRoot)}}

\* Variant of MediaToCheck that keeps the records of exact groups.
MediaToCheck_KeepExact(fts, byRoot) ==
    SelectSeq(fts, LAMBDA ft : ft.IsImage /\ ft.PHash # {})
    \o SelectSeq(fts, LAMBDA ft : ft.IsVideo /\ Len(ft.VideoHash) > 0)

\* The two Filter calls of FindDuplicates and the append of their results.
MediaToCheck(fts, byRoot) ==
    LET inExact       == FilesInExactGroups(fts, byRoot)
        imagesToCheck == SelectSeq(fts, LAMBDA ft :
                             ft.IsImage /\ ft.PHash # {} /\ ft.Path \notin inExact)
        videosToCheck == SelectSeq(fts, LAMBDA ft :
                             ft.IsVideo /\ Len(ft.VideoHash) > 0 /\ ft.Path \notin inExact)
    IN  imagesToCheck \o videosToCheck

----------------------------------------------------------------------------
(* Smart duplicate groups *)

RECURSIVE SumSizes(_, _, _)
SumSizes(fts, group, i) ==
    IF i > Len(group) THEN 0
    ELSE fts[group[i]].Size + SumSizes(fts, group, i + 1)

\* First loop of CreateSmartGroups, ranging over filesByRoot in the given order.
RECURSIVE ExactGroupsLoop(_, _, _, _)
ExactGroupsLoop(fts, byRoot, order, j) ==
    IF j > Len(order) THEN <<>>
    ELSE LET group     == byRoot[order[j]]
             totalSize == SumSizes(fts, group, 1)
         IN  (IF Len(group) <= 1 THEN <<>>
              ELSE <<[Files      |-> [i \in 1..Len(group) |-> fts[group[i]].Path],
                      Similarity |-> Frac(1, 1),
                      Size       |-> totalSize,
                      GroupType  |-> "exact",
                      Savings    |-> totalSize - fts[group[1]].Size]>>)
             \o ExactGroupsLoop(fts, byRoot, order, j + 1)

\* Variant of SelectMatches that does not look at the processed set.
SelectMatches_IgnoreProcessed(matches, min, processed) ==
    SelectSeq(matches, LAMBDA m : FracGE(m.Similarity, min))

\* The matches of one source that join its group: similarity at least min and
\* target not yet processed.
SelectMatches(matches, min, processed) ==
    SelectSeq(matches, LAMBDA m :
        FracGE(m.Similarity, min) /\ m.TargetPath \notin processed)

\* Variant of SimilarGroupsLoop that admits matches from similarity 0.5.
RECURSIVE SimilarGroupsLoop_MinHalf(_, _, _, _)
SimilarGroupsLoop_MinHalf(partialMatches, order, j, processed) ==
    IF j > Len(order) THEN <<>>
    ELSE LET srcPath    == order[j]
             selected   == SelectMatches(partialMatches[srcPath], Frac(5, 10), processed)
             groupFiles == <<srcPath>> \o [i \in 1..Len(selected) |-> selected[i].TargetPath]
         IN  IF srcPath \in processed
             THEN SimilarGroupsLoop_MinHalf(partialMatches, order, j + 1, processed)
             ELSE IF Len(groupFiles) > 1
             THEN <<[Files      |-> groupFiles,
                     Similarity |-> Frac(8, 10),
                     Size       |-> 0,
                     GroupType  |-> "similar",
                     Savings    |-> 0]>>
                  \o SimilarGroupsLoop_MinHalf(partialMatches, order, j + 1,
                         processed \cup Range(groupFiles))
             ELSE SimilarGroupsLoop_MinHalf(partialMatches, order, j + 1, processed)

\* Second loop: partialMatches ranged over in the given order.  totalSize is
\* declared as 0 and never added to.
RECURSIVE SimilarGroupsLoop(_, _, _, _)
SimilarGroupsLoop(partialMatches, order, j, processed) ==
    IF j > Len(order) THEN <<>>
    ELSE LET srcPath    == order[j]
             selected   == SelectMatches(partialMatches[srcPath], Frac(8, 10), processed)
             groupFiles == <<srcPath>> \o [i \in 1..Len(selected) |-> selected[i].TargetPath]
             totalSize  == 0
         IN  IF srcPath \in processed
             THEN SimilarGroupsLoop(partialMatches, order, j + 1, processed)
             ELSE IF Len(groupFiles) > 1
             THEN <<[Files      |-> groupFiles,
                     Similarity |-> Frac(8, 10),
                     Size       |-> totalSize,
                     GroupType  |-> "similar",
                     Savings    |-> totalSize \div 2]>>
                  \o SimilarGroupsLoop(partialMatches, order, j + 1,
                         processed \cup Range(groupFiles))
             ELSE SimilarGroupsLoop(partialMatches, order, j + 1, processed)

RECURSIVE SumSimilarityN(_, _)
SumSimilarityN(selected, i) ==
    IF i > Len(selected) THEN 0
    ELSE selected[i].Similarity.n + SumSimilarityN(selected, i + 1)

\* "for _, ft := range fileTrees { for _, gf := range groupFiles {...} }"
RECURSIVE GroupTotalSize(_, _, _)
GroupTotalSize(fts, groupFiles, i) ==
    IF i > Len(fts) THEN 0
    ELSE (IF fts[i].Path \in Range(groupFiles) THEN fts[i].Size ELSE 0)
         + GroupTotalSize(fts, groupFiles, i + 1)

\* Third loop: visualMatches ranged over in the given order.  Every visual
\* similarity is a fraction over 64, so the mean is the sum of the numerators
\* over 64 times the count.
RECURSIVE VisualGroupsLoop(_, _, _, _, _)
VisualGroupsLoop(fts, visualMatches, order, j, processedVisual) ==
    IF j > Len(order) THEN <<>>
    ELSE LET srcPath    == order[j]
             selected   == SelectMatches(visualMatches[srcPath], Frac(85, 100),
                                         processedVisual)
             groupFiles == <<srcPath>> \o [i \in 1..Len(selected) |-> selected[i].TargetPath]
             matchCount == Len(selected)
             avgSimilarity == IF matchCount > 0
                              THEN Frac(SumSimilarityN(selected, 1), 64 * matchCount)
                              ELSE Frac(9, 10)
             totalSize  == GroupTotalSize(fts, groupFiles, 1)
             firstIdx   == findFileIndex(fts, [Path |-> groupFiles[1]])
             savings    == IF firstIdx # 0 THEN totalSize - fts[firstIdx].Size
                           ELSE totalSize
         IN  IF srcPath \in processedVisual
             THEN VisualGroupsLoop(fts, visualMatches, order, j + 1, processedVisual)
             ELSE IF Len(groupFiles) > 1
             THEN <<[Files      |-> groupFiles,
                     Similarity |-> avgSimilarity,
                     Size       |-> totalSize,
                     GroupType  |-> "visual",
                     Savings    |-> savings]>>
                  \o VisualGroupsLoop(fts, visualMatches, order, j + 1,
                         processedVisual \cup Range(groupFiles))
             ELSE VisualGroupsLoop(fts, visualMatches, order, j + 1, processedVisual)

\* Every group list CreateSmartGroups can return: the three loops run one
\* after the other, each ranging over its map in an arbitrary order.
CreateSmartGroups(fts, byRoot, partialMatches, visualMatches) ==
    LET E == {ExactGroupsLoop(fts, byRoot, o, 1) : o \in Perms(DOMAIN byRoot)}
        P == {SimilarGroupsLoop(partialMatches, o, 1, {}) :
                o \in Perms(DOMAIN partialMatches)}
        V == {VisualGroupsLoop(fts, visualMatches, o, 1, {}) :
                o \in Perms(DOMAIN visualMatches)}
    IN  {e \o p \o v : e \in E, p \in P, v \in V}

----------------------------------------------------------------------------
(* Inputs *)

\* File contents and extensions a batch is drawn from: an empty file, two
\* short texts (one a repeated block), and four images, two of which are five
\* blocks long and differ in the last block only.  The fingerprints of the
\* first three images are at Hamming distances 9, 9 and 18; the fourth image
\* has other bytes than the third and the same fingerprint.
FileKinds ==
    {[Data |-> <<>>,              ext |-> ".txt"],
     [Data |-> <<1>>,             ext |-> ".txt"],
     [Data |-> <<1, 1>>,          ext |-> ".txt"],
     [Data |-> <<6>>,             ext |-> ".gif"],
     [Data |-> <<1, 1, 1, 1, 2>>, ext |-> ".jpg"],
     [Data |-> <<1, 1, 1, 1, 3>>, ext |-> ".png"],
     [Data |-> <<5>>,             ext |-> ".JPG"]}

Thresholds == {Frac(0, 1), Frac(4, 5), Frac(1, 1)}

ChunkSizes == {1, 2}

\* The JSFile analyzeFiles builds for the i-th host file: paths are unique
\* within a batch, size is the length of the byte buffer, and
\* VideoFrameHashes is never set.
JSFile(i, kind) ==
    [Name             |-> i,
     Path             |-> [name |-> i, ext |-> kind.ext],
     Size             |-> Len(kind.Data),
     Data             |-> kind.Data,
     VideoFrameHashes |-> <<>>]

\* The batches of at most MaxFiles files drawn from kinds.
BatchesOf(kinds) ==
    UNION {{[i \in 1..n |-> JSFile(i, ks[i])] : ks \in [1..n -> kinds]} :
              n \in 0..MaxFiles}

Batches == BatchesOf(FileKinds)

\* Text files of 0, 2, 3, 5, 6 and 8 blocks, which chunk sizes 1 and 2 cut
\* into 0, 1, 2, 3, 4, 5, 6 and 8 chunks.  The two blocks of the second file
\* are the digests of the chunks <<1, 1>> and <<2>> of the third.
MerkleKinds ==
    {[Data |-> <<>>,                       ext |-> ".txt"],
     [Data |-> <<6, 7>>,                   ext |-> ".txt"],
     [Data |-> <<1, 1, 2>>,                ext |-> ".txt"],
     [Data |-> <<1, 1, 1, 1, 2>>,          ext |-> ".txt"],
     [Data |-> <<1, 2, 1, 2, 1, 2>>,       ext |-> ".txt"],
     [Data |-> <<1, 2, 1, 2, 1, 2, 1, 2>>, ext |-> ".txt"]}

\* Four video files with different bytes, and a file with an image
\* extension that does not decode.
MediaKinds ==
    {[Data |-> <<8>>,  ext |-> ".mp4"],
     [Data |-> <<9>>,  ext |-> ".mov"],
     [Data |-> <<10>>, ext |-> ".MP4"],
     [Data |-> <<11>>, ext |-> ".webm"],
     [Data |-> <<2>>,  ext |-> ".gif"]}

\* Arguments of the analyzeFiles calls of a session: batches of one-block
\* text files, one threshold, chunk sizes that are negative, zero and
\* positive, and two host callbacks.
CallKinds == {[Data |-> <<1>>, ext |-> ".txt"]}

CallThresholds == {Frac(4, 5)}

CallChunkSizes == {-1, 0, 1}

Sinks == {"sink1", "sink2"}

\* Number of arguments and callback argument of a call: args[3] is read only
\* when there are four arguments or more.
CallShapes ==
    {[nargs |-> 2, callback |-> "undefined"],
     [nargs |-> 3, callback |-> "undefined"]}
    \cup {[nargs |-> 4, callback |-> cb] : cb \in Sinks}

NoExactDups == [allMatches |-> EmptyMap, fullDupCount |-> 0, spaceSaved |-> 0]
NoPartialDups == [allMatches |-> EmptyMap, partialDupCount |-> 0]
NoResult ==
    [AllMatches |-> EmptyMap, DuplicateGroups |-> <<>>, TotalFiles |-> 0,
     UniqueFiles |-> 0, FullDupCount |-> 0, PartialDupCount |-> 0,
     VisualDupCount |-> 0, SpaceSaved |-> 0]

----------------------------------------------------------------------------
(* Progress reporting *)

\* reportProgress: the event invoked on the callback the package-level
\* variable holds, or nothing when it is undefined.
reportProgress(current, total, message, percent) ==
    IF progressCallback # "undefined"
    THEN <<[sink    |-> progressCallback,
            call    |-> Len(callLog),
            current |-> current,
            total   |-> total,
            message |-> message,
            percent |-> percent]>>
    ELSE <<>>

\* The reportProgress calls of ProcessFile for the files 1..last.
RECURSIVE ProcessingEvents(_, _)
ProcessingEvents(i, last) ==
    IF i > last THEN <<>>
    ELSE reportProgress(i - 1, Len(files), <<"Processing %s", files[i].Name>>,
                        Frac((i - 1) * 100, Len(files)))
         \o ProcessingEvents(i + 1, last)

----------------------------------------------------------------------------
(* FindDuplicates, one action per stage *)

Init ==
    /\ pc = "hashing"
    /\ files \in Batches
    /\ threshold \in Thresholds
    /\ chunkSize \in ChunkSizes
    /\ fileTrees = <<>>
    /\ filesByRoot = EmptyMap
    /\ exactDups = NoExactDups
    /\ partialDups = NoPartialDups
    /\ visualDups = EmptyMap
    /\ smartGroups = <<>>
    /\ result = NoResult
    /\ progressCallback = "undefined"
    /\ callLog = <<[nargs |-> 3, callback |-> "undefined"]>>
    /\ delivered = <<>>
    /\ HostIdle

\* The same call on batches of the text files of MerkleKinds.
InitMerkle ==
    /\ pc = "hashing"
    /\ files \in BatchesOf(MerkleKinds)
    /\ threshold \in Thresholds
    /\ chunkSize \in ChunkSizes
    /\ fileTrees = <<>>
    /\ filesByRoot = EmptyMap
    /\ exactDups = NoExactDups
    /\ partialDups = NoPartialDups
    /\ visualDups = EmptyMap
    /\ smartGroups = <<>>
    /\ result = NoResult
    /\ progressCallback = "undefined"
    /\ callLog = <<[nargs |-> 3, callback |-> "undefined"]>>
    /\ delivered = <<>>
    /\ HostIdle

\* The same call on batches of the files of MediaKinds.
InitMedia ==
    /\ pc = "hashing"
    /\ files \in BatchesOf(MediaKinds)
    /\ threshold \in Thresholds
    /\ chunkSize \in ChunkSizes
    /\ fileTrees = <<>>
    /\ filesByRoot = EmptyMap
    /\ exactDups = NoExactDups
    /\ partialDups = NoPartialDups
    /\ visualDups = EmptyMap
    /\ smartGroups = <<>>
    /\ result = NoResult
    /\ progressCallback = "undefined"
    /\ callLog = <<[nargs |-> 3, callback |-> "undefined"]>>
    /\ delivered = <<>>
    /\ HostIdle

\* "Starting analysis..." and the ProcessFile loop.  With a chunk size of 0
\* the chunking loop of the first non-empty file never ends (i += 0); with a
\* negative chunk size its first slice expression data[0:end] panics.
HashFiles ==
    /\ pc = "hashing"
    /\ LET n    == Len(files)
           bad  == {i \in 1..n : chunkSize <= 0 /\ Len(files[i].Data) > 0}
           last == IF bad = {} THEN n
                   ELSE CHOOSE i \in bad : \A j \in bad : i <= j
       IN  /\ fileTrees' = [i \in 1..(IF bad = {} THEN n ELSE last - 1) |->
                               ProcessFile(files[i], chunkSize)]
           /\ delivered' = delivered
                            \o reportProgress(0, 100, <<"Starting analysis...">>,
                                              Frac(0, 1))
                            \o ProcessingEvents(1, last)
           /\ pc' = IF bad = {} THEN "grouping"
                    ELSE IF chunkSize = 0 THEN "hung" ELSE "panic"
    /\ UNCHANGED hostVars
    /\ UNCHANGED <<files, threshold, chunkSize, filesByRoot, exactDups,
                   partialDups, visualDups, smartGroups, result,
                   progressCallback, callLog>>

GroupFiles ==
    /\ pc = "grouping"
    /\ filesByRoot' = GroupBy(fileTrees)
    /\ pc' = "exact"
    /\ UNCHANGED hostVars
    /\ UNCHANGED <<files, threshold, chunkSize, fileTrees, exactDups,
                   partialDups, visualDups, smartGroups, result,
                   progressCallback, callLog>>
    /\ delivered' = delivered
                     \o reportProgress(30, 100, <<"Grouping files...">>, Frac(30, 1))

FindExact ==
    /\ pc = "exact"
    /\ \E order \in Perms(DuplicateKeys(filesByRoot)) :
          exactDups' = processExactDuplicates(fileTrees, filesByRoot, order)
    /\ pc' = "partial"
    /\ UNCHANGED hostVars
    /\ UNCHANGED <<files, threshold, chunkSize, fileTrees, filesByRoot,
                   partialDups, visualDups, smartGroups, result,
                   progressCallback, callLog>>
    /\ delivered' = delivered
                     \o reportProgress(50, 100, <<"Finding exact duplicates...">>,
                                       Frac(50, 1))

FindPartial ==
    /\ pc = "partial"
    /\ partialDups' \in
          processPartialDuplicates(fileTrees, exactDups.allMatches, threshold)
    /\ pc' = "visual"
    /\ UNCHANGED hostVars
    /\ UNCHANGED <<files, threshold, chunkSize, fileTrees, filesByRoot,
                   exactDups, visualDups, smartGroups, result,
                   progressCallback, callLog>>
    /\ delivered' = delivered
                     \o reportProgress(70, 100, <<"Finding similar files...">>,
                                       Frac(70, 1))
                     \o reportProgress(0, 100, <<"Building chunk index...">>,
                                       Frac(0, 1))
                     \o reportProgress(100, 100, <<"Chunk index built">>,
                                       Frac(100, 1))

FindVisual ==
    /\ pc = "visual"
    /\ visualDups' = findVisualDuplicates(MediaToCheck(fileTrees, filesByRoot),
                                          Frac(85, 100))
    /\ pc' = "smartgroups"
    /\ UNCHANGED hostVars
    /\ UNCHANGED <<files, threshold, chunkSize, fileTrees, filesByRoot,
                   exactDups, partialDups, smartGroups, result,
                   progressCallback, callLog>>
    /\ delivered' = delivered
                     \o reportProgress(80, 100,
                            <<"Finding visually similar images...">>, Frac(80, 1))
                     \o (LET media == MediaToCheck(fileTrees, filesByRoot)
                             nImages == Len(SelectSeq(media, LAMBDA ft : ft.IsImage))
                         IN  reportProgress(81, 100,
                                <<"Checking %d images and %d videos for visual similarity...",
                                  nImages, Len(media) - nImages>>, Frac(81, 1)))
                     \o reportProgress(0, 100,
                            <<"Finding visually similar images...">>, Frac(80, 1))

\* Variant of SmartGroups without its reportProgress call.
SmartGroups_NoEvent ==
    /\ pc = "smartgroups"
    /\ smartGroups' \in CreateSmartGroups(fileTrees, filesByRoot,
                                          partialDups.allMatches, visualDups)
    /\ pc' = "assembling"
    /\ UNCHANGED hostVars
    /\ UNCHANGED <<files, threshold, chunkSize, fileTrees, filesByRoot,
                   exactDups, partialDups, visualDups, result,
                   progressCallback, callLog, delivered>>

SmartGroups ==
    /\ pc = "smartgroups"
    /\ smartGroups' \in CreateSmartGroups(fileTrees, filesByRoot,
                                          partialDups.allMatches, visualDups)
    /\ pc' = "assembling"
    /\ UNCHANGED hostVars
    /\ UNCHANGED <<files, threshold, chunkSize, fileTrees, filesByRoot,
                   exactDups, partialDups, visualDups, result,
                   progressCallback, callLog>>
    /\ delivered' = delivered
                     \o reportProgress(85, 100, <<"Creating smart groups...">>,
                                       Frac(85, 1))

\* Variant of Assemble that also subtracts the visual duplicates from the
\* unique count.
Assemble_VisualNotUnique ==
    /\ pc = "assembling"
    /\ LET allMatches == MapCombine(exactDups.allMatches,
                             MapCombine(partialDups.allMatches, visualDups))
           totalFiles == Len(fileTrees)
           duplicateFileCount == exactDups.fullDupCount + partialDups.partialDupCount
                                 + Cardinality(DOMAIN visualDups)
       IN  result' = [AllMatches      |-> allMatches,
                      DuplicateGroups |-> smartGroups,
                      TotalFiles      |-> totalFiles,
                      UniqueFiles     |-> totalFiles - duplicateFileCount,
                      FullDupCount    |-> exactDups.fullDupCount,
                      PartialDupCount |-> partialDups.partialDupCount,
                      VisualDupCount  |-> Cardinality(DOMAIN visualDups),
                      SpaceSaved      |-> exactDups.spaceSaved]
    /\ pc' = "done"
    /\ UNCHANGED hostVars
    /\ UNCHANGED <<files, threshold, chunkSize, fileTrees, filesByRoot,
                   exactDups, partialDups, visualDups, smartGroups,
                   progressCallback, callLog>>
    /\ delivered' = delivered
                     \o reportProgress(90, 100, <<"Building file tree...">>,
                                       Frac(90, 1))
                     \o reportProgress(100, 100, <<"Analysis complete!">>,
                                       Frac(100, 1))

\* The map union, the counts and the returned DedupResult (RootTree and
\* ProcessingTime are not modelled).
Assemble ==
    /\ pc = "assembling"
    /\ LET allMatches == MapCombine(exactDups.allMatches,
                             MapCombine(partialDups.allMatches, visualDups))
           totalFiles == Len(fileTrees)
           duplicateFileCount == exactDups.fullDupCount + partialDups.partialDupCount
       IN  result' = [AllMatches      |-> allMatches,
                      DuplicateGroups |-> smartGroups,
                      TotalFiles      |-> totalFiles,
                      UniqueFiles     |-> totalFiles - duplicateFileCount,
                      FullDupCount    |-> exactDups.fullDupCount,
                      PartialDupCount |-> partialDups.partialDupCount,
                      VisualDupCount  |-> Cardinality(DOMAIN visualDups),
                      SpaceSaved      |-> exactDups.spaceSaved]
    /\ pc' = "done"
    /\ UNCHANGED hostVars
    /\ UNCHANGED <<files, threshold, chunkSize, fileTrees, filesByRoot,
                   exactDups, partialDups, visualDups, smartGroups,
                   progressCallback, callLog>>
    /\ delivered' = delivered
                     \o reportProgress(90, 100, <<"Building file tree...">>,
                                       Frac(90, 1))
                     \o reportProgress(100, 100, <<"Analysis complete!">>,
                                       Frac(100, 1))

Next ==
    \/ HashFiles
    \/ GroupFiles
    \/ FindExact
    \/ FindPartial
    \/ FindVisual
    \/ SmartGroups
    \/ Assemble

Spec == Init /\ [][Next]_vars

\* The module after main has registered analyzeFiles: no call made yet, the
\* package-level progressCallback is the zero js.Value (undefined).
EngineIdle ==
    /\ pc = "idle"
    /\ files = <<>>
    /\ threshold = Frac(4, 5)
    /\ chunkSize = 1
    /\ fileTrees = <<>>
    /\ filesByRoot = EmptyMap
    /\ exactDups = NoExactDups
    /\ partialDups = NoPartialDups
    /\ visualDups = EmptyMap
    /\ smartGroups = <<>>
    /\ result = NoResult
    /\ progressCallback = "undefined"
    /\ callLog = <<>>
    /\ delivered = <<>>

InitCalls ==
    /\ EngineIdle
    /\ HostIdle

\* Entry of analyzeFiles, when the previous call has returned: fewer than
\* three arguments return the error value; otherwise the arguments are read
\* (chunkSize as it comes), progressCallback is assigned only when a fourth
\* argument is given and defined, and FindDuplicates is entered.
analyzeFilesEntry(shape) ==
    /\ callLog' = Append(callLog, shape)
    /\ IF shape.nargs < 3
       THEN /\ result' = [error |-> "Expected 3 arguments: files, threshold, chunkSize"]
            /\ pc' = "error"
            /\ UNCHANGED <<files, threshold, chunkSize, fileTrees,
                           filesByRoot, exactDups, partialDups,
                           visualDups, smartGroups, progressCallback>>
       ELSE /\ files' \in BatchesOf(CallKinds)
            /\ threshold' \in CallThresholds
            /\ chunkSize' \in CallChunkSizes
            /\ progressCallback' = IF shape.callback # "undefined"
                                   THEN shape.callback
                                   ELSE progressCallback
            /\ fileTrees' = <<>>
            /\ filesByRoot' = EmptyMap
            /\ exactDups' = NoExactDups
            /\ partialDups' = NoPartialDups
            /\ visualDups' = EmptyMap
            /\ smartGroups' = <<>>
            /\ result' = NoResult
            /\ pc' = "hashing"
    /\ UNCHANGED delivered

\* A call of analyzeFiles from the page, with any shape of arguments.
AnalyzeFiles ==
    /\ pc \in {"idle", "done", "error"}
    /\ Len(callLog) < MaxCalls
    /\ \E shape \in CallShapes : analyzeFilesEntry(shape)
    /\ UNCHANGED hostVars

NextCalls ==
    \/ AnalyzeFiles
    \/ Next

SpecCalls == InitCalls /\ [][NextCalls]_vars

SpecMerkle == InitMerkle /\ [][Next]_vars

SpecMedia == InitMedia /\ [][Next]_vars

----------------------------------------------------------------------------
(* wasm-worker.js: the web worker around analyzeFiles *)

\* The variables of the engine, which the worker touches only by calling
\* analyzeFiles.
engineVars == <<pc, files, threshold, chunkSize, fileTrees, filesByRoot,
                exactDups, partialDups, visualDups, smartGroups, result,
                progressCallback, callLog, delivered>>

\* self.postMessage: req is the index in requests of the 'analyze' message
\* being handled (0 outside the handler); after is the number of progress
\* events delivered so far, each of which the callback of the handler has
\* posted as a 'progress' message.
Post(type, error, req) ==
    Append(posted, [type |-> type, error |-> error, req |-> req,
                    after |-> Len(delivered)])

\* The progressCallback closure the handler builds for the k-th call.
WorkerCallback(k) == <<"sink1", "sink2", "sink3", "sink4">>[k]

\* The top-level script: importScripts either throws, which posts an error
\* and ends the script before self.onmessage is assigned, or succeeds; new
\* Go() either throws, which posts an error and leaves go null, or succeeds
\* and the fetch of main.wasm is started.  In both latter cases the handler
\* is installed.
WorkerScript ==
    /\ wasmLoad = "importing"
    /\ \E outcome \in {"aborted", "nogo", "fetching"} :
          /\ wasmLoad' = outcome
          /\ posted' =
                CASE outcome = "aborted" ->
                        Post("error", "Failed to load wasm_exec.js", 0)
                  [] outcome = "nogo" ->
                        Post("error", "Failed to initialize Go runtime", 0)
                  [] OTHER -> posted
    /\ UNCHANGED <<wasmReady, workerPc, requests>>
    /\ UNCHANGED engineVars
    /\ UNCHANGED scanVars
    /\ UNCHANGED parVars
    /\ UNCHANGED mcpVars

\* The last then-callback of the promise chain: the module is instantiated,
\* go.run has started main, which registers analyzeFiles.
WasmLoaded ==
    /\ wasmLoad = "fetching"
    /\ workerPc = "idle"
    /\ wasmLoad' = "instantiated"
    /\ wasmReady' = TRUE
    /\ posted' = Post("ready", "", 0)
    /\ UNCHANGED <<workerPc, requests>>
    /\ UNCHANGED engineVars
    /\ UNCHANGED scanVars
    /\ UNCHANGED parVars
    /\ UNCHANGED mcpVars

\* The catch-callback of the promise chain: fetch or instantiate failed.
WasmFailed ==
    /\ wasmLoad = "fetching"
    /\ workerPc = "idle"
    /\ wasmLoad' = "failed"
    /\ posted' = Post("error", "WASM loading failed", 0)
    /\ UNCHANGED <<wasmReady, workerPc, requests>>
    /\ UNCHANGED engineVars
    /\ UNCHANGED scanVars
    /\ UNCHANGED parVars
    /\ UNCHANGED mcpVars

\* An 'analyze' message dispatched to a worker whose script ended at the
\* throw of line 11: self.onmessage was never assigned, nothing runs.
MessageDropped ==
    /\ wasmLoad = "aborted"
    /\ Len(requests) < MaxRequests
    /\ requests' = Append(requests, [ready |-> FALSE, call |-> 0])
    /\ UNCHANGED <<wasmLoad, wasmReady, workerPc, posted>>
    /\ UNCHANGED engineVars
    /\ UNCHANGED scanVars
    /\ UNCHANGED parVars
    /\ UNCHANGED mcpVars

\* self.onmessage for an 'analyze' message, up to the call of analyzeFiles.
\* Not ready: the error is posted and the handler returns.  Ready, but the
\* Go program has exited in an earlier panic: the call throws and the catch
\* clause posts the error.  Otherwise analyzeFiles is entered with four
\* arguments, the fourth a fresh closure.
WorkerOnMessage ==
    /\ wasmLoad \notin {"importing", "aborted"}
    /\ workerPc = "idle"
    /\ Len(requests) < MaxRequests
    /\ UNCHANGED scanVars
    /\ UNCHANGED parVars
    /\ UNCHANGED mcpVars
    /\ LET req == Len(requests) + 1
       IN  IF ~wasmReady
           THEN /\ posted' = Post("error", "WASM module not ready yet. Please wait a moment and try again.", req)
                /\ requests' = Append(requests, [ready |-> FALSE, call |-> 0])
                /\ UNCHANGED <<wasmLoad, wasmReady, workerPc>>
                /\ UNCHANGED engineVars
           ELSE IF pc = "panic"
           THEN /\ posted' = Post("error", "Go program has already exited", req)
                /\ requests' = Append(requests, [ready |-> TRUE, call |-> 0])
                /\ UNCHANGED <<wasmLoad, wasmReady, workerPc>>
                /\ UNCHANGED engineVars
           ELSE /\ Len(callLog) < MaxCalls
                /\ analyzeFilesEntry([nargs |-> 4,
                                      callback |-> WorkerCallback(Len(callLog) + 1)])
                /\ requests' = Append(requests, [ready |-> TRUE,
                                                 call |-> Len(callLog) + 1])
                /\ workerPc' = "calling"
                /\ UNCHANGED <<wasmLoad, wasmReady, posted>>

\* The rest of the handler, once analyzeFiles has returned: a JSON string
\* parses to a result without an error field and is posted as 'complete';
\* the error map of analyzeFiles and the undefined left by a panic make
\* JSON.parse throw, and the catch clause posts the error.
WorkerReturn ==
    /\ workerPc = "calling"
    /\ pc \in {"done", "error", "panic"}
    /\ posted' = IF pc = "done"
                 THEN Post("complete", "", Len(requests))
                 ELSE Post("error", "err.message", Len(requests))
    /\ workerPc' = "idle"
    /\ UNCHANGED <<wasmLoad, wasmReady, requests>>
    /\ UNCHANGED engineVars
    /\ UNCHANGED scanVars
    /\ UNCHANGED parVars
    /\ UNCHANGED mcpVars

InitWorker ==
    /\ EngineIdle
    /\ HostIdle

NextWorker ==
    \/ WorkerScript
    \/ WasmLoaded
    \/ WasmFailed
    \/ MessageDropped
    \/ WorkerOnMessage
    \/ WorkerReturn
    \/ Next

SpecWorker == InitWorker /\ [][NextWorker]_vars

----------------------------------------------------------------------------
(* reference/main.go: ScanDirectoryThunk *)

\* Paths are sequences of name components; RootDir is the scanned directory.
RootDir == <<0>>

\* The paths that may exist below RootDir, three directory levels deep.
ScanPaths ==
    {<<0>>, <<0, 1>>, <<0, 2>>, <<0, 2, 1>>, <<0, 2, 2>>, <<0, 2, 2, 1>>,
     <<0, 2, 2, 2>>, <<0, 2, 2, 2, 1>>}

\* What may be at a path: nothing, a regular file, a symbolic link (which
\* Walk does not follow and whose FileInfo is not a directory), a directory.
KindsAt(path) ==
    CASE path = <<0>>             -> {"dir"}
      [] path = <<0, 1>>          -> {"none", "file", "symlink"}
      [] path = <<0, 2>>          -> {"none", "dir"}
      [] path = <<0, 2, 1>>       -> {"none", "file"}
      [] path = <<0, 2, 2>>       -> {"none", "dir"}
      [] path = <<0, 2, 2, 1>>    -> {"none", "file"}
      [] path = <<0, 2, 2, 2>>    -> {"none", "dir"}
      [] path = <<0, 2, 2, 2, 1>> -> {"none", "file"}

Parent(path) == SubSeq(path, 1, Len(path) - 1)

\* The directory trees: an entry exists only inside an existing directory.
FsTrees ==
    {t \in [ScanPaths -> {"none", "file", "symlink", "dir"}] :
        \A path \in ScanPaths :
            /\ t[path] \in KindsAt(path)
            /\ (path # RootDir /\ t[path] # "none") => t[Parent(path)] = "dir"}

\* filepath.Rel for a path inside rootDir: the components after rootDir,
\* <<>> standing for ".".
Rel(rootDir, filePath) == SubSeq(filePath, Len(rootDir) + 1, Len(filePath))

\* strings.Count(rel, separator): one separator between two components.
SeparatorCount(rel) == Len(rel) - 1

calculateDepth(rootDir, filePath) ==
    LET rel == Rel(rootDir, filePath)
    IN  IF rel = <<>> THEN 0 ELSE SeparatorCount(rel) + 1

\* The entries of a directory in the lexical order Walk reads them in.
RECURSIVE SortedByName(_)
SortedByName(S) ==
    IF S = {} THEN <<>>
    ELSE LET first == CHOOSE x \in S : \A y \in S : x[Len(x)] <= y[Len(y)]
         IN  <<first>> \o SortedByName(S \ {first})

Children(path) ==
    SortedByName({c \in ScanPaths : /\ Len(c) = Len(path) + 1
                                    /\ Parent(c) = path
                                    /\ fsTree[c] # "none"})

\* Before Compute runs: Walk is about to hand the root to the callback.
InitScan ==
    /\ EngineIdle
    /\ WorkerIdle
    /\ ParIdle
    /\ McpIdle
    /\ fsTree \in FsTrees
    /\ maxDepth \in 0..MaxScanDepth
    /\ walkTodo = <<RootDir>>
    /\ scanned = <<>>

\* One call of the Walk callback, and Walk's reaction to what it returns:
\* SkipDir for a directory deeper than maxDepth leaves its entries out; any
\* other directory has its entries visited next; an entry that is not a
\* directory is appended to files when its depth is at most maxDepth.
WalkFn ==
    /\ walkTodo # <<>>
    /\ LET path  == Head(walkTodo)
           isDir == fsTree[path] = "dir"
           depth == calculateDepth(RootDir, path)
       IN  /\ walkTodo' = (IF isDir /\ depth <= maxDepth
                           THEN Children(path) ELSE <<>>) \o Tail(walkTodo)
           /\ scanned' = IF ~isDir /\ depth <= maxDepth
                         THEN Append(scanned, path) ELSE scanned
    /\ UNCHANGED <<fsTree, maxDepth>>
    /\ UNCHANGED engineVars
    /\ UNCHANGED workerVars
    /\ UNCHANGED parVars
    /\ UNCHANGED mcpVars

NextScan == WalkFn

SpecScan == InitScan /\ [][NextScan]_vars

----------------------------------------------------------------------------
(* reference/main.go: ParallelRunThunks *)

\* The values thunks compute; "zero" is the zero value make() fills results
\* with, which no thunk of the model returns.
ThunkValues == {"a", "b"}

\* RunThunk(t) = t.Compute(): a thunk is held as the value it computes.
RunThunk(t) == t

\* Variant of JobsCap for an unbuffered channel.
JobsCap_Unbuffered(n) == 0

\* make(chan int, len(thunks)): the capacity of jobs.
JobsCap(n) == n

\* Indices count from 1 here (from 0 in the source).
InitPar ==
    /\ EngineIdle
    /\ WorkerIdle
    /\ ScanIdle
    /\ McpIdle
    /\ \E n \in 0..MaxThunks : thunks \in [1..n -> ThunkValues]
    /\ numWorkersArg \in -1..MaxWorkers
    /\ numWorkers = numWorkersArg
    /\ results = <<>>
    /\ jobs = <<>>
    /\ jobsClosed = FALSE
    /\ wg = 0
    /\ mainPc = "start"
    /\ workerState = <<>>
    /\ ran = [i \in 1..Len(thunks) |-> 0]
    /\ writers = [i \in 1..Len(thunks) |-> {}]

\* Lines 218-223: the normalisation of numWorkers and the three makes.
ParStart ==
    /\ mainPc = "start"
    /\ numWorkers' = IF numWorkers <= 0 THEN 1 ELSE numWorkers
    /\ results' = [i \in 1..Len(thunks) |-> "zero"]
    /\ mainPc' = "spawn"
    /\ UNCHANGED <<thunks, numWorkersArg, jobs, jobsClosed, wg, workerState,
                   ran, writers>>
    /\ UNCHANGED <<engineVars, workerVars, scanVars, mcpVars>>

\* One iteration of the loop of lines 225-233: wg.Add(1) and the go
\* statement; after the last one the caller goes on to the send loop.
ParSpawn ==
    /\ mainPc = "spawn"
    /\ IF Len(workerState) < numWorkers
       THEN /\ wg' = wg + 1
            /\ workerState' = Append(workerState, [pc |-> "recv", idx |-> 0])
            /\ UNCHANGED mainPc
       ELSE /\ mainPc' = "send"
            /\ UNCHANGED <<wg, workerState>>
    /\ UNCHANGED <<thunks, numWorkersArg, numWorkers, results, jobs,
                   jobsClosed, ran, writers>>
    /\ UNCHANGED <<engineVars, workerVars, scanVars, mcpVars>>

\* The indices the caller has sent so far.
Sent == Len(jobs) + Cardinality({i \in 1..Len(thunks) : ran[i] > 0})
          + Cardinality({w \in 1..Len(workerState) : workerState[w].pc = "run"})

\* "jobs <- i" of lines 235-237, possible only while the buffer has room,
\* and after the last index close(jobs).
ParSend ==
    /\ mainPc = "send"
    /\ IF Sent < Len(thunks)
       THEN /\ Len(jobs) < JobsCap(Len(thunks))
            /\ jobs' = Append(jobs, Sent + 1)
            /\ UNCHANGED <<jobsClosed, mainPc>>
       ELSE /\ jobsClosed' = TRUE
            /\ mainPc' = "wait"
            /\ UNCHANGED jobs
    /\ UNCHANGED <<thunks, numWorkersArg, numWorkers, results, wg,
                   workerState, ran, writers>>
    /\ UNCHANGED <<engineVars, workerVars, scanVars, mcpVars>>

\* wg.Wait() returns when the counter is zero; results is returned.
ParWait ==
    /\ mainPc = "wait"
    /\ wg = 0
    /\ mainPc' = "returned"
    /\ UNCHANGED <<thunks, numWorkersArg, numWorkers, results, jobs,
                   jobsClosed, wg, workerState, ran, writers>>
    /\ UNCHANGED <<engineVars, workerVars, scanVars, mcpVars>>

\* "for idx := range jobs" in worker w: receive the next index, or leave
\* the loop when the channel is closed and drained, which runs the deferred
\* wg.Done().
ParReceive(w) ==
    /\ workerState[w].pc = "recv"
    /\ IF jobs # <<>>
       THEN /\ workerState' = [workerState EXCEPT ![w] =
                                  [pc |-> "run", idx |-> Head(jobs)]]
            /\ jobs' = Tail(jobs)
            /\ UNCHANGED wg
       ELSE /\ jobsClosed
            /\ workerState' = [workerState EXCEPT ![w] =
                                  [pc |-> "exited", idx |-> 0]]
            /\ wg' = wg - 1
            /\ UNCHANGED jobs
    /\ UNCHANGED <<thunks, numWorkersArg, numWorkers, results, jobsClosed,
                   mainPc, ran, writers>>
    /\ UNCHANGED <<engineVars, workerVars, scanVars, mcpVars>>

\* "results[idx] = RunThunk(thunks[idx])" in worker w.
ParRun(w) ==
    /\ workerState[w].pc = "run"
    /\ LET idx == workerState[w].idx
       IN  /\ results' = [results EXCEPT ![idx] = RunThunk(thunks[idx])]
           /\ ran' = [ran EXCEPT ![idx] = @ + 1]
           /\ writers' = [writers EXCEPT ![idx] = @ \cup {w}]
    /\ workerState' = [workerState EXCEPT ![w] = [pc |-> "recv", idx |-> 0]]
    /\ UNCHANGED <<thunks, numWorkersArg, numWorkers, jobs, jobsClosed, wg,
                   mainPc>>
    /\ UNCHANGED <<engineVars, workerVars, scanVars, mcpVars>>

ParWorker == \E w \in 1..Len(workerState) : ParReceive(w) \/ ParRun(w)

NextPar ==
    \/ ParStart
    \/ ParSpawn
    \/ ParSend
    \/ ParWait
    \/ ParWorker

SpecPar == InitPar /\ [][NextPar]_vars

----------------------------------------------------------------------------
(* mcp-server.go: the request loop *)

\* The params of a tools/call request: whether they unmarshal, the tool
\* they name, and whether the string argument of that tool is present.
ToolParams ==
    {[valid |-> TRUE,  name |-> "analyze_duplicates",   arg |-> TRUE],
     [valid |-> TRUE,  name |-> "get_duplicate_groups", arg |-> FALSE],
     [valid |-> TRUE,  name |-> "no_such_tool",         arg |-> TRUE],
     [valid |-> FALSE, name |-> "",                     arg |-> FALSE]}

NoParams == [valid |-> TRUE, name |-> "", arg |-> FALSE]

\* What a JSON value on stdin can be: a request that decodes into
\* MCPRequest, a JSON value with a field of the wrong type ("badtype"), or
\* text that is not JSON ("syntax").
InputKinds ==
    {[kind |-> "request", method |-> m, params |-> NoParams] :
        m \in {"initialize", "tools/list", "no/such/method"}}
    \cup {[kind |-> "request", method |-> "tools/call", params |-> tp] :
              tp \in ToolParams}
    \cup {[kind |-> "badtype", method |-> "", params |-> NoParams],
          [kind |-> "syntax",  method |-> "", params |-> NoParams]}

\* The input streams: the k-th value carries the id 100 - k.
InputStreams ==
    UNION {{[k \in 1..n |-> [id     |-> 100 - k,
                              kind   |-> ks[k].kind,
                              method |-> ks[k].method,
                              params |-> ks[k].params]] :
               ks \in [1..n -> InputKinds]} : n \in 0..MaxInput}

\* handleToolCall: an error for params that do not unmarshal, for an
\* unknown tool and for a tool whose string argument is missing.
handleToolCall(params) ==
    IF ~params.valid THEN [ok |-> FALSE, err |-> "invalid params"]
    ELSE IF params.name \in {"analyze_duplicates", "get_duplicate_groups",
                             "check_file_hash"}
    THEN IF params.arg THEN [ok |-> TRUE, err |-> ""]
         ELSE [ok |-> FALSE, err |-> "parameter required"]
    ELSE [ok |-> FALSE, err |-> "unknown tool"]

\* The response main builds for a decoded request (lines 59-86); code 0
\* stands for a nil Error.
Response(req) ==
    LET call == handleToolCall(req.params)
    IN  CASE req.method \in {"initialize", "tools/list"} ->
                [id |-> req.id, result |-> TRUE, code |-> 0]
          [] req.method = "tools/call" ->
                IF call.ok THEN [id |-> req.id, result |-> TRUE, code |-> 0]
                ELSE [id |-> req.id, result |-> FALSE, code |-> -32603]
          [] OTHER -> [id |-> req.id, result |-> FALSE, code |-> -32601]

InitMcp ==
    /\ EngineIdle
    /\ WorkerIdle
    /\ ScanIdle
    /\ ParIdle
    /\ stdin \in InputStreams
    /\ decErr = "none"
    /\ stdout = <<>>
    /\ mcpPc = "loop"
    /\ served = <<>>
    /\ logged = 0

\* A loop iteration whose Decode succeeds: the response is built and
\* encoded.
McpRespond ==
    /\ mcpPc = "loop"
    /\ decErr = "none"
    /\ stdin # <<>>
    /\ Head(stdin).kind = "request"
    /\ stdin' = Tail(stdin)
    /\ served' = Append(served, Head(stdin))
    /\ stdout' = Append(stdout, Response(Head(stdin)))
    /\ UNCHANGED <<decErr, mcpPc, logged>>
    /\ UNCHANGED <<engineVars, workerVars, scanVars, parVars>>

\* A loop iteration whose Decode fails with an error other than io.EOF: the
\* error is logged and the loop continues.  A value with a field of the
\* wrong type has been consumed.  Text that is not JSON has been read into
\* the decoder, which keeps the syntax error: every later Decode returns
\* that error at once, without reading on.
McpDecodeError ==
    /\ mcpPc = "loop"
    /\ logged < MaxLogged
    /\ \/ /\ decErr = "none"
          /\ stdin # <<>>
          /\ Head(stdin).kind = "badtype"
          /\ stdin' = Tail(stdin)
          /\ UNCHANGED decErr
       \/ /\ decErr = "none"
          /\ stdin # <<>>
          /\ Head(stdin).kind = "syntax"
          /\ stdin' = Tail(stdin)
          /\ decErr' = "syntax"
       \/ /\ decErr # "none"
          /\ UNCHANGED <<decErr, stdin>>
    /\ logged' = logged + 1
    /\ UNCHANGED <<stdout, mcpPc, served>>
    /\ UNCHANGED <<engineVars, workerVars, scanVars, parVars>>

\* Decode returns io.EOF: the loop is left and main returns.
McpShutdown ==
    /\ mcpPc = "loop"
    /\ decErr = "none"
    /\ stdin = <<>>
    /\ mcpPc' = "shutdown"
    /\ UNCHANGED <<stdin, decErr, stdout, served, logged>>
    /\ UNCHANGED <<engineVars, workerVars, scanVars, parVars>>

NextMcp ==
    \/ McpRespond
    \/ McpDecodeError
    \/ McpShutdown

SpecMcp == InitMcp /\ [][NextMcp]_vars

----------------------------------------------------------------------------
(* Vocabulary of the properties *)

Done == pc = "done"

FileIdx == 1..Len(fileTrees)

\* The records with the Merkle root of record i.
RootClass(i) == {j \in FileIdx : fileTrees[j].Root = fileTrees[i].Root}

InExactClass(i) == Cardinality(RootClass(i)) >= 2

Min(S) == CHOOSE x \in S : \A y \in S : x <= y

\* The paths of a set of records, in input order.
RECURSIVE PathsInOrder(_)
PathsInOrder(S) ==
    IF S = {} THEN <<>>
    ELSE <<fileTrees[Min(S)].Path>> \o PathsInOrder(S \ {Min(S)})

GroupsOfType(groups, type) == SelectSeq(groups, LAMBDA g : g.GroupType = type)

MatchesOfType(matches, path, type) ==
    IF path \in DOMAIN matches
    THEN SelectSeq(matches[path], LAMBDA m : m.MatchType = type)
    ELSE <<>>

CountTarget(list, path) ==
    Cardinality({k \in 1..Len(list) : list[k].TargetPath = path})

RECURSIVE SumOver(_, _)
SumOver(S, f) ==
    IF S = {} THEN 0
    ELSE LET x == CHOOSE y \in S : TRUE IN f[x] + SumOver(S \ {x}, f)

----------------------------------------------------------------------------
(* C1: exact groups are the root classes of two or more records *)

\* C1: after FindDuplicates the groups of kind "exact" in DuplicateGroups are
\* exactly the classes of records with equal Merkle root that have two or
\* more members, one group per class, members listed in input order; a class
\* of one record yields no group.
C1_ExactGroupsAreRootClasses ==
    Done =>
        LET eg == GroupsOfType(result.DuplicateGroups, "exact")
        IN  /\ {eg[g].Files : g \in 1..Len(eg)}
                 = {PathsInOrder(RootClass(i)) : i \in {j \in FileIdx : InExactClass(j)}}
            /\ \A g, h \in 1..Len(eg) : eg[g].Files = eg[h].Files => g = h

C1_Witness ==
    /\ Done
    /\ \E i, j \in FileIdx : i # j /\ InExactClass(i) /\ ~InExactClass(j)
    /\ Len(GroupsOfType(result.DuplicateGroups, "exact")) = 1

----------------------------------------------------------------------------
(* C2: exact-match lists *)

\* C2: for every member s of an exact class, the exact matches of s list each
\* other member t of the class exactly once, as {t.path, 1.0, s.size, exact},
\* and list neither s itself nor a record outside the class.
C2_ExactMatchLists ==
    Done =>
        \A s \in FileIdx : InExactClass(s) =>
            LET list == MatchesOfType(result.AllMatches, fileTrees[s].Path, "exact")
            IN  /\ \A t \in RootClass(s) \ {s} :
                       CountTarget(list, fileTrees[t].Path) = 1
                /\ \A k \in 1..Len(list) :
                       /\ list[k].TargetPath \in
                              {fileTrees[t].Path : t \in RootClass(s) \ {s}}
                       /\ list[k].Similarity = Frac(1, 1)
                       /\ list[k].SharedSize = fileTrees[s].Size

C2_Witness ==
    /\ Done
    /\ \E s \in FileIdx : Cardinality(RootClass(s)) = 3 /\ fileTrees[s].Size > 0
    /\ DOMAIN exactDups.allMatches # {}

----------------------------------------------------------------------------
(* C3: bounds of partial similarities *)

\* C3: every match of kind "partial" that processPartialDuplicates emits has
\* threshold <= similarity < 1.0, and with threshold 1.0 it emits none.
C3_PartialSimilarityBounds ==
    pc = "visual" =>
        /\ \A p \in DOMAIN partialDups.allMatches :
              \A k \in 1..Len(partialDups.allMatches[p]) :
                 LET m == partialDups.allMatches[p][k]
                 IN  m.MatchType = "partial" =>
                        /\ FracGE(m.Similarity, threshold)
                        /\ FracLT(m.Similarity, Frac(1, 1))
        /\ FracEQ(threshold, Frac(1, 1)) => DOMAIN partialDups.allMatches = {}

C3_Witness ==
    /\ pc = "visual"
    /\ \E p \in DOMAIN partialDups.allMatches :
          \E k \in 1..Len(partialDups.allMatches[p]) :
             /\ partialDups.allMatches[p][k].MatchType = "partial"
             /\ FracEQ(partialDups.allMatches[p][k].Similarity, threshold)
             /\ FracEQ(threshold, Frac(4, 5))

----------------------------------------------------------------------------
(* C4: the similarity CompareFiles computes *)

\* Pairs of distinct records with different roots and non-empty leaf lists,
\* taken when the ProcessFile loop has returned (the records do not change
\* afterwards).
ComparablePairs ==
    {st \in FileIdx \X FileIdx :
        /\ pc = "grouping"
        /\ st[1] # st[2]
        /\ fileTrees[st[1]].Root # fileTrees[st[2]].Root
        /\ Len(fileTrees[st[1]].Leaves) > 0
        /\ Len(fileTrees[st[2]].Leaves) > 0}

\* C4 as stated: CompareFiles(s, t) is the number of DISTINCT digests shared by
\* s and t over the length of the leaf sequence of s, also when a digest
\* repeats in s.
C4_DistinctSharedDigests ==
    \A st \in ComparablePairs :
        LET s == fileTrees[st[1]]
            t == fileTrees[st[2]]
        IN  FracEQ(CompareFiles(s, t),
                   Frac(Cardinality(Range(s.Leaves) \cap Range(t.Leaves)),
                        Len(s.Leaves)))

\* C4 as amended: CompareFiles(s, t) is the number of POSITIONS of the leaf
\* sequence of s whose digest occurs among the leaves of t, over the length of
\* that sequence (a digest that repeats in s counts once per occurrence); it
\* equals the ratio of distinct shared digests when no digest repeats in s.
C4_SharedLeafPositions ==
    \A st \in ComparablePairs :
        LET s == fileTrees[st[1]]
            t == fileTrees[st[2]]
            shared == {i \in 1..Len(s.Leaves) :
                          \E j \in 1..Len(t.Leaves) : t.Leaves[j] = s.Leaves[i]}
        IN  /\ FracEQ(CompareFiles(s, t), Frac(Cardinality(shared), Len(s.Leaves)))
            /\ Cardinality(Range(s.Leaves)) = Len(s.Leaves) =>
                  FracEQ(CompareFiles(s, t),
                         Frac(Cardinality(Range(s.Leaves) \cap Range(t.Leaves)),
                              Len(s.Leaves)))

\* A source with a repeated digest, compared with a target that holds it.
C4_Witness ==
    \E st \in ComparablePairs :
        LET s == fileTrees[st[1]]
            t == fileTrees[st[2]]
        IN  /\ Cardinality(Range(s.Leaves)) < Len(s.Leaves)
            /\ Range(s.Leaves) \cap Range(t.Leaves) # {}
            /\ FracLT(CompareFiles(s, t), Frac(1, 1))

----------------------------------------------------------------------------
(* C5: exact duplicates are partial targets, never partial sources *)

NoExactMatch(i) == fileTrees[i].Path \notin DOMAIN exactDups.allMatches

\* Triples A, B, C: A and B in one exact class, C without exact match and
\* sharing a fraction sim > 0 of its chunks with A, threshold <= sim < 1.0.
C5_Triples ==
    {abc \in FileIdx \X FileIdx \X FileIdx :
        /\ abc[1] # abc[2]
        /\ abc[2] \in RootClass(abc[1])
        /\ NoExactMatch(abc[3])
        /\ FracLT(Frac(0, 1), CompareFiles(fileTrees[abc[3]], fileTrees[abc[1]]))
        /\ FracGE(CompareFiles(fileTrees[abc[3]], fileTrees[abc[1]]), threshold)
        /\ FracLT(CompareFiles(fileTrees[abc[3]], fileTrees[abc[1]]), Frac(1, 1))}

\* C5: a record with an exact match is never a source of partial matches but
\* stays a target: for such A, B, C the match list of C holds one partial
\* match against A and one against B, A and B hold none, and in a batch of
\* these three files FullDupCount = 2 and PartialDupCount = 1.
C5_ExactFilesAreTargetsOnly ==
    Done =>
        /\ \A i \in FileIdx : ~NoExactMatch(i) =>
              MatchesOfType(result.AllMatches, fileTrees[i].Path, "partial") = <<>>
        /\ \A abc \in C5_Triples :
              LET listC == MatchesOfType(result.AllMatches,
                                         fileTrees[abc[3]].Path, "partial")
              IN  /\ CountTarget(listC, fileTrees[abc[1]].Path) = 1
                  /\ CountTarget(listC, fileTrees[abc[2]].Path) = 1
                  /\ Len(fileTrees) = 3 =>
                        /\ result.FullDupCount = 2
                        /\ result.PartialDupCount = 1

C5_Witness ==
    /\ Done
    /\ Len(fileTrees) = 3
    /\ C5_Triples # {}
    /\ result.PartialDupCount = 1

----------------------------------------------------------------------------
(* C6: the result does not depend on map iteration order *)

\* The groups of a list, each as its set of member paths with its kind.
GroupBag(groups) ==
    {<<Range(groups[g].Files), groups[g].GroupType>> : g \in 1..Len(groups)}

\* C6: two runs of analyze on the same inputs yield the same groups up to
\* order: whatever order the partial-match and visual-match maps are ranged
\* over, the groups (member set and kind) are those of this run.
C6_GroupsIndependentOfIterationOrder ==
    Done =>
        \A other \in CreateSmartGroups(fileTrees, filesByRoot,
                                       partialDups.allMatches, visualDups) :
            /\ GroupBag(other) = GroupBag(result.DuplicateGroups)
            /\ Len(other) = Len(result.DuplicateGroups)

----------------------------------------------------------------------------
(* C7: SpaceSaved *)

\* Bytes reclaimed by keeping the first member of every exact class.
ReclaimableBytes ==
    LET firsts == {i \in FileIdx : InExactClass(i) /\ i = Min(RootClass(i))}
        saving == [i \in firsts |->
                      SumOver(RootClass(i), [j \in FileIdx |-> fileTrees[j].Size])
                      - fileTrees[i].Size]
    IN  SumOver(firsts, saving)

\* C7: SpaceSaved is the sum over the exact groups of the aggregate member
\* size minus the size of the one retained representative (two identical
\* files of s bytes give SpaceSaved = s).
C7_SpaceSavedIsReclaimable ==
    Done => result.SpaceSaved = ReclaimableBytes

----------------------------------------------------------------------------
(* C8: UniqueFiles *)

HasMatchOfType(i, type) ==
    MatchesOfType(result.AllMatches, fileTrees[i].Path, type) # <<>>

\* C8: UniqueFiles = TotalFiles - (FullDupCount + PartialDupCount), and a file
\* whose only matches are visual counts as unique: UniqueFiles is the number
\* of files whose match list holds neither an exact nor a partial match.
C8_UniqueFiles ==
    Done =>
        /\ result.UniqueFiles
             = result.TotalFiles - (result.FullDupCount + result.PartialDupCount)
        /\ result.UniqueFiles
             = Cardinality({i \in FileIdx :
                   ~HasMatchOfType(i, "exact") /\ ~HasMatchOfType(i, "partial")})

C8_Witness ==
    /\ Done
    /\ result.VisualDupCount > 0
    /\ \E i \in FileIdx :
          /\ HasMatchOfType(i, "visual")
          /\ ~HasMatchOfType(i, "exact")
          /\ ~HasMatchOfType(i, "partial")
    /\ result.UniqueFiles = result.TotalFiles

----------------------------------------------------------------------------
(* C9: FullDupCount *)

\* C9: FullDupCount is the number of distinct files in an exact class of two
\* or more members, each counted once whatever the size of its class.
C9_FullDupCount ==
    Done => result.FullDupCount = Cardinality({i \in FileIdx : InExactClass(i)})

C9_Witness ==
    /\ Done
    /\ \E i \in FileIdx : Cardinality(RootClass(i)) = 3
    /\ result.FullDupCount = 3

----------------------------------------------------------------------------
(* C10: leaf count of a file record *)

CeilDiv(a, b) == (a + b - 1) \div b

\* C10: for every record ProcessFile produces, the length of the leaf sequence
\* equals ChunkCount, and is ceil(size / chunk_size) when size > 0 and 0 for
\* an empty file.
C10_LeafCount ==
    \A i \in FileIdx :
        /\ Len(fileTrees[i].Leaves) = fileTrees[i].ChunkCount
        /\ Len(fileTrees[i].Leaves)
             = IF fileTrees[i].Size > 0
               THEN CeilDiv(fileTrees[i].Size, chunkSize) ELSE 0

----------------------------------------------------------------------------
(* C11: collectLeaves returns the chunk digests in chunk order *)

\* The k-th chunk (1-based) of the bytes of file i.
ChunkOf(i, k) ==
    SubSeq(files[i].Data, (k - 1) * chunkSize + 1,
           IF k * chunkSize > Len(files[i].Data)
           THEN Len(files[i].Data) ELSE k * chunkSize)

\* C11: for every file of n >= 1 chunks, collectLeaves of the tree that
\* BuildMerkleTree built returns exactly the n chunk digests in the chunk
\* order of the bytes (none dropped, duplicated or replaced by an interior
\* digest), and Leaves is their hex encoding.
C11_LeavesAreChunkDigests ==
    pc = "grouping" =>
        \A i \in FileIdx :
            LET n == CeilDiv(Len(files[i].Data), chunkSize)
                digests == [k \in 1..n |-> HashLeaf(ChunkOf(i, k))]
            IN  n >= 1 =>
                   /\ collectLeaves(fileTrees[i].Tree) = digests
                   /\ fileTrees[i].Leaves
                        = [k \in 1..n |-> HexEncode(digests[k])]

\* Files of 5 and of 8 chunks in one batch, the tree of the first with a
\* root whose digest was folded over three levels.
C11_Witness ==
    /\ pc = "grouping"
    /\ \E i, j \in FileIdx :
          /\ fileTrees[i].ChunkCount = 5
          /\ fileTrees[j].ChunkCount = 8
          /\ Len(fileTrees[i].Tree.Children) = 3
          /\ Len(collectLeaves(fileTrees[i].Tree)) = 5

----------------------------------------------------------------------------
(* C12: the Merkle root as a fingerprint of the content *)

\* C12: two records of one batch with equal Merkle roots have the same chunk
\* count and the same ordered leaf-digest sequence, for every chunk size
\* (H injective, hashing chunks and concatenations of two child digests).
C12_EqualRootsEqualLeaves ==
    pc = "grouping" =>
        \A i, j \in FileIdx :
            fileTrees[i].Root = fileTrees[j].Root =>
               /\ fileTrees[i].ChunkCount = fileTrees[j].ChunkCount
               /\ fileTrees[i].Leaves = fileTrees[j].Leaves

----------------------------------------------------------------------------
(* C13: visual matches are symmetric and above threshold *)

\* The index of the record with the given path.
IdxOfPath(path) == CHOOSE i \in FileIdx : fileTrees[i].Path = path

\* C13: whenever the match list of a has a "visual" entry targeting b with
\* similarity v, then v >= 0.85, v = 1 - popcount(h_a XOR h_b) / 64, and the
\* match list of b has exactly one "visual" entry targeting a, with the same
\* similarity v.
C13_VisualMatchesSymmetric ==
    Done =>
        \A a \in FileIdx :
            LET listA == MatchesOfType(result.AllMatches, fileTrees[a].Path, "visual")
            IN  \A k \in 1..Len(listA) :
                    LET b     == IdxOfPath(listA[k].TargetPath)
                        v     == listA[k].Similarity
                        listB == MatchesOfType(result.AllMatches,
                                               fileTrees[b].Path, "visual")
                    IN  /\ listA[k].TargetPath \in {fileTrees[i].Path : i \in FileIdx}
                        /\ FracGE(v, Frac(85, 100))
                        /\ FracEQ(v, Frac(64 - Cardinality(
                               (fileTrees[a].PHash \ fileTrees[b].PHash)
                               \cup (fileTrees[b].PHash \ fileTrees[a].PHash)), 64))
                        /\ CountTarget(listB, fileTrees[a].Path) = 1
                        /\ \A m \in 1..Len(listB) :
                               listB[m].TargetPath = fileTrees[a].Path =>
                                  FracEQ(listB[m].Similarity, v)

\* Three images in one result: two pairs at distance 9 that match, and one
\* pair at distance 18 that does not.
C13_Witness ==
    /\ Done
    /\ \E a, b, c \in FileIdx :
          /\ Len(MatchesOfType(result.AllMatches, fileTrees[b].Path, "visual")) = 2
          /\ CountTarget(MatchesOfType(result.AllMatches, fileTrees[a].Path, "visual"),
                         fileTrees[b].Path) = 1
          /\ CountTarget(MatchesOfType(result.AllMatches, fileTrees[a].Path, "visual"),
                         fileTrees[c].Path) = 0
          /\ CountTarget(MatchesOfType(result.AllMatches, fileTrees[c].Path, "visual"),
                         fileTrees[b].Path) = 1

----------------------------------------------------------------------------
(* C14: members of exact classes take no part in visual matching *)

\* The "visual" entries of every match list of the result.
VisualEntries ==
    UNION {Range(MatchesOfType(result.AllMatches, fileTrees[i].Path, "visual")) :
              i \in FileIdx}

\* C14: a file that belongs to an exact-duplicate class is neither the source
\* nor the target of a visual match, and is a member of no group of kind
\* "visual".
C14_ExactFilesNotVisual ==
    Done =>
        \A i \in FileIdx : InExactClass(i) =>
            /\ MatchesOfType(result.AllMatches, fileTrees[i].Path, "visual") = <<>>
            /\ fileTrees[i].Path \notin DOMAIN visualDups
            /\ \A m \in VisualEntries : m.TargetPath # fileTrees[i].Path
            /\ \A g \in 1..Len(result.DuplicateGroups) :
                   result.DuplicateGroups[g].GroupType = "visual" =>
                      fileTrees[i].Path \notin Range(result.DuplicateGroups[g].Files)

\* Two identical decodable images and a third image whose fingerprint is
\* within the threshold of theirs.
C14_Witness ==
    /\ Done
    /\ \E i, j, k \in FileIdx :
          /\ i # j
          /\ j \in RootClass(i)
          /\ fileTrees[i].IsImage /\ fileTrees[i].PHash # {}
          /\ ~InExactClass(k)
          /\ fileTrees[k].IsImage /\ fileTrees[k].PHash # {}
          /\ FracGE(hashSimilarity(fileTrees[i].PHash, fileTrees[k].PHash),
                    Frac(85, 100))
          /\ fileTrees[k].Path \notin DOMAIN visualDups

----------------------------------------------------------------------------
(* C15: videos with matching frame fingerprints *)

\* The per-frame fingerprints the host has extracted from a video and
\* carries on its file object: <<8>> and <<9>> agree on both frames (the
\* second within distance 1), <<10>> has the first frame only, <<11>> none.
HostFrameHashes(data) ==
    CASE data = <<8>>  -> <<{0}, {1}>>
      [] data = <<9>>  -> <<{0}, {1, 2}>>
      [] data = <<10>> -> <<{0}>>
      [] OTHER -> <<>>

\* Matching frame pairs over the longer of the two lists.
FrameSimilarity(A, B) ==
    LET minLen == IF Len(A) < Len(B) THEN Len(A) ELSE Len(B)
        maxLen == IF Len(A) > Len(B) THEN Len(A) ELSE Len(B)
    IN  Frac(Cardinality({i \in 1..minLen :
                 FracGE(Frac(64 - Cardinality((A[i] \ B[i]) \cup (B[i] \ A[i])), 64),
                        Frac(85, 100))}),
             maxLen)

\* Pairs of videos outside every exact class whose frame lists are non-empty
\* and similar enough.
C15_VideoPairs ==
    {ab \in FileIdx \X FileIdx :
        /\ ab[1] # ab[2]
        /\ isVideoFile(fileTrees[ab[1]].Path) /\ isVideoFile(fileTrees[ab[2]].Path)
        /\ ~InExactClass(ab[1]) /\ ~InExactClass(ab[2])
        /\ Len(HostFrameHashes(files[ab[1]].Data)) > 0
        /\ Len(HostFrameHashes(files[ab[2]].Data)) > 0
        /\ FracGE(FrameSimilarity(HostFrameHashes(files[ab[1]].Data),
                                  HostFrameHashes(files[ab[2]].Data)),
                  Frac(85, 100))}

\* C15: two video files that are in no exact class and carry non-empty
\* frame-fingerprint lists A and B are reported as visual matches of each
\* other whenever (matching frame pairs) / max(|A|, |B|) >= 0.85.
C15_SimilarVideosMatch ==
    Done =>
        \A ab \in C15_VideoPairs :
            CountTarget(MatchesOfType(result.AllMatches,
                                      fileTrees[ab[1]].Path, "visual"),
                        fileTrees[ab[2]].Path) >= 1

----------------------------------------------------------------------------
(* C16: similarity 1.0 and the kind of a match *)

\* Every match of the result, with the index of its source.
AllMatchEntries ==
    UNION {{[src |-> i, m |-> result.AllMatches[fileTrees[i].Path][k]] :
               k \in 1..Len(result.AllMatches[fileTrees[i].Path])} :
           i \in {j \in FileIdx : fileTrees[j].Path \in DOMAIN result.AllMatches}}

\* C16 as stated: for every DuplicateMatch in AllMatches, similarity = 1.0 if
\* and only if its kind is "exact".
C16_SimilarityOneIffExact ==
    Done =>
        \A e \in AllMatchEntries :
            FracEQ(e.m.Similarity, Frac(1, 1)) <=> e.m.MatchType = "exact"

\* C16 as amended: every exact match carries 1.0, no partial match carries
\* 1.0, and a visual match carries 1.0 exactly when the perceptual hashes of
\* its two files are equal.
C16_SimilarityOneByKind ==
    Done =>
        \A e \in AllMatchEntries :
            /\ e.m.MatchType \in {"exact", "partial", "visual"}
            /\ e.m.MatchType = "exact" => FracEQ(e.m.Similarity, Frac(1, 1))
            /\ e.m.MatchType = "partial" => FracLT(e.m.Similarity, Frac(1, 1))
            /\ e.m.MatchType = "visual" =>
                  (FracEQ(e.m.Similarity, Frac(1, 1))
                     <=> fileTrees[e.src].PHash
                           = fileTrees[IdxOfPath(e.m.TargetPath)].PHash)

\* Two images with different bytes and one fingerprint, and a third image
\* within the threshold of both.
C16_Witness ==
    /\ Done
    /\ \E e, f \in AllMatchEntries :
          /\ e.m.MatchType = "visual" /\ FracEQ(e.m.Similarity, Frac(1, 1))
          /\ fileTrees[e.src].Root # fileTrees[IdxOfPath(e.m.TargetPath)].Root
          /\ f.m.MatchType = "visual" /\ FracLT(f.m.Similarity, Frac(1, 1))

----------------------------------------------------------------------------
(* C17: groups have two or more members and are disjoint within a kind *)

\* C17: in every result, whatever order the greedy passes ranged over their
\* maps in, each duplicate group has at least 2 members and no path is a
\* member of two groups of the same kind.
C17_GroupsDisjointWithinKind ==
    Done =>
        LET G == result.DuplicateGroups
        IN  /\ \A g \in 1..Len(G) : Len(G[g].Files) >= 2
            /\ \A g, h \in 1..Len(G) :
                   (g # h /\ G[g].GroupType = G[h].GroupType) =>
                      Range(G[g].Files) \cap Range(G[h].Files) = {}

\* A greedy pass that met a processed target: a file with a visual match
\* above the threshold that is a member of no visual group, next to the one
\* visual group of the result.
C17_Witness ==
    /\ Done
    /\ Len(GroupsOfType(result.DuplicateGroups, "visual")) = 1
    /\ \E i \in FileIdx :
          /\ fileTrees[i].Path \in DOMAIN visualDups
          /\ \A g \in 1..Len(result.DuplicateGroups) :
                 fileTrees[i].Path \notin Range(result.DuplicateGroups[g].Files)

----------------------------------------------------------------------------
(* C18: linear order of the stages and of their progress events *)

\* The labels of the events delivered during the current call, in order.
CallLabels ==
    LET ev == SelectSeq(delivered, LAMBDA e : e.call = Len(callLog))
    IN  [k \in 1..Len(ev) |-> ev[k].message[1]]

\* Stage of a boundary label as the claim orders the stages; 0 for a label
\* that is not a boundary event.
StageClaimed(label) ==
    CASE label = "Processing %s"                      -> 1
      [] label = "Building chunk index..."            -> 2
      [] label = "Finding exact duplicates..."        -> 3
      [] label = "Finding similar files..."           -> 4
      [] label = "Finding visually similar images..." -> 5
      [] label = "Creating smart groups..."           -> 6
      [] label = "Building file tree..."              -> 7
      [] label = "Analysis complete!"                 -> 8
      [] OTHER -> 0

\* Stage of a boundary label with the chunk index built inside the partial
\* stage.
StageInCode(label) ==
    IF label = "Building chunk index..." THEN 4 ELSE StageClaimed(label)

BoundaryLabels ==
    {"Processing %s", "Building chunk index...", "Finding exact duplicates...",
     "Finding similar files...", "Finding visually similar images...",
     "Creating smart groups...", "Building file tree...", "Analysis complete!"}

\* The boundary events of the current call run through the stages in order
\* under the given assignment of labels to stages: every boundary label but
\* "Processing" is reported, "Processing" is reported once per file, no
\* stage has an event after an event of a later stage, and the last event is
\* "Analysis complete!".
LinearStages(stage(_)) ==
    LET L == CallLabels
        B == SelectSeq(L, LAMBDA l : l \in BoundaryLabels)
    IN  /\ \A l \in BoundaryLabels \ {"Processing %s"} : \E k \in 1..Len(B) : B[k] = l
        /\ Cardinality({k \in 1..Len(B) : B[k] = "Processing %s"}) = Len(files)
        /\ \A k \in 1..(Len(B) - 1) : stage(B[k]) <= stage(B[k + 1])
        /\ L[Len(L)] = "Analysis complete!"

----------------------------------------------------------------------------
(* C19: the progress sink is an argument of the call *)

\* C19: over any sequence of analyze calls, every progress event goes to the
\* sink passed to the call that emitted it; a call made without a sink
\* delivers no event to any sink, a sink of an earlier call included.
C19_EventsGoToSinkOfCall ==
    \A k \in 1..Len(delivered) :
        callLog[delivered[k].call].callback = delivered[k].sink

----------------------------------------------------------------------------
(* C20: invalid arguments fail fast *)

\* The current call has fewer than three arguments or a chunk size that is
\* not positive.
InvalidCall ==
    /\ Len(callLog) > 0
    /\ \/ callLog[Len(callLog)].nargs < 3
       \/ chunkSize <= 0

\* C20: analyze called with a non-positive chunk size, or with fewer than
\* three arguments, terminates without entering the chunking loop and
\* returns an error value, never a DedupResult.
C20_InvalidArgumentsFailFast ==
    InvalidCall =>
        /\ pc \notin {"hung", "panic", "done"}
        /\ pc = "error" => DOMAIN result = {"error"}

----------------------------------------------------------------------------
(* C21: the worker answers every 'analyze' message exactly once *)

\* The indices in posted of the terminal messages of request r.
Terminals(r) ==
    {k \in 1..Len(posted) :
        posted[k].req = r /\ posted[k].type \in {"complete", "error"}}

\* No handler is running, or the one that runs is inside a call of
\* analyzeFiles that never returns.
WorkerQuiescent == workerPc = "idle" \/ pc = "hung"

\* C21: every 'analyze' message dispatched to the worker has, once its
\* handling can go no further, exactly one terminal message ('complete' or
\* 'error'); the progress events of its analyzeFiles call all precede that
\* message; a message arriving while the module is not ready is answered by
\* the 'not ready' error without a call of analyzeFiles; and 'ready' is
\* posted at most once, only after instantiation.
C21_EveryAnalyzeAnsweredOnce ==
    /\ \A r \in 1..Len(requests) :
          /\ Cardinality(Terminals(r)) <= 1
          /\ WorkerQuiescent => Cardinality(Terminals(r)) = 1
          /\ \A k \in Terminals(r) :
                /\ \A e \in 1..Len(delivered) :
                      delivered[e].call = requests[r].call => e <= posted[k].after
                /\ ~requests[r].ready =>
                      /\ posted[k].type = "error"
                      /\ posted[k].error = "WASM module not ready yet. Please wait a moment and try again."
          /\ ~requests[r].ready => requests[r].call = 0
    /\ Cardinality({k \in 1..Len(posted) : posted[k].type = "ready"}) <= 1
    /\ \A k \in 1..Len(posted) :
          posted[k].type = "ready" => wasmLoad = "instantiated"

----------------------------------------------------------------------------
(* C22: Max Depth d returns the files at most d directory levels down *)

\* The number of directories between the root and an entry: 0 for an entry
\* directly in the root directory.
LevelsBelowRoot(path) == Len(path) - Len(RootDir) - 1

\* C22: when the scan has ended, the returned paths are exactly the
\* regular files that lie at most maxDepth directory levels below the
\* root (maxDepth 0: the files directly in the root directory).
C22_ScanReturnsFilesWithinDepth ==
    walkTodo = <<>> /\ fsTree # <<>> =>
        Range(scanned) = {path \in ScanPaths :
                             /\ fsTree[path] = "file"
                             /\ LevelsBelowRoot(path) <= maxDepth}

----------------------------------------------------------------------------
(* C23: the Merkle root, level by level *)

\* One level up: adjacent digests paired left to right and replaced by the
\* hash of their concatenation, an unpaired last digest carried up as it is.
LevelUp(level) ==
    [k \in 1..CeilDiv(Len(level), 2) |->
        IF 2 * k <= Len(level)
        THEN H(level[2 * k - 1] \o level[2 * k])
        ELSE level[2 * k - 1]]

RECURSIVE RootByLevels(_)
RootByLevels(level) ==
    IF Len(level) = 1 THEN level[1] ELSE RootByLevels(LevelUp(level))

\* The digests of the chunks of file i, in chunk order.
ChunkDigests(i) ==
    [k \in 1..fileTrees[i].ChunkCount |-> HashLeaf(ChunkOf(i, k))]

\* C23: for every file of n >= 1 chunks the Merkle root is the digest left
\* after levelling up the n chunk digests until one remains (for n = 1 the
\* leaf digest itself, for n = 3 H(H(l0 || l1) || l2)).
C23_RootIsLevelwiseFold ==
    pc = "grouping" =>
        \A i \in FileIdx :
            LET l == ChunkDigests(i)
            IN  /\ Len(l) >= 1 => fileTrees[i].Root = RootByLevels(l)
                /\ Len(l) = 3 =>
                      fileTrees[i].Root = H(H(l[1] \o l[2]) \o l[3])

\* A batch with a file of 3 chunks and a file of 5 chunks, the root of the
\* latter being H(H(H(l0 || l1) || H(l2 || l3)) || l4).
C23_Witness ==
    /\ pc = "grouping"
    /\ \E i, j \in FileIdx :
          /\ fileTrees[i].ChunkCount = 3
          /\ fileTrees[j].ChunkCount = 5
          /\ LET l == ChunkDigests(j)
             IN  fileTrees[j].Root
                   = H(H(H(l[1] \o l[2]) \o H(l[3] \o l[4])) \o l[5])

----------------------------------------------------------------------------
(* C24: the bound of the candidate pre-filter *)

\* The shared-chunk counter of target t for source s: the number of
\* positions of the leaf sequence of s whose digest is listed under t in the
\* chunk index, that is, occurs among the leaves of t.
SharedCounter(s, t) ==
    Cardinality({k \in 1..Len(fileTrees[s].Leaves) :
                    fileTrees[s].Leaves[k] \in Range(fileTrees[t].Leaves)})

\* threshold * L rounded up, and rounded down.
CeilMul(x, f) == (x * f.n + f.d - 1) \div f.d
FloorMul(x, f) == (x * f.n) \div f.d

\* The candidate map of source s over the chunk index of the batch.
CandidatesOf(s) ==
    FindCandidates(fileTrees[s], BuildChunkIndex(fileTrees), threshold)

\* C24 as stated: the targets FindCandidates retains for a source are
\* exactly the files with a counter that are at or above the threshold
\* times the source's leaf count ROUNDED UP.
C24_RetainedAtCeil ==
    pc = "visual" =>
        \A s \in FileIdx :
            DOMAIN CandidatesOf(s)
              = {t \in FileIdx :
                    /\ SharedCounter(s, t) >= 1
                    /\ SharedCounter(s, t)
                         >= CeilMul(Len(fileTrees[s].Leaves), threshold)}

\* C24 as amended: the targets FindCandidates retains for a source are
\* exactly the files with a counter that are at or above the threshold
\* times the source's leaf count ROUNDED DOWN, each retained with its
\* counter; a target whose counter is below that bound is never retained.
C24_RetainedAtFloor ==
    pc = "visual" =>
        \A s \in FileIdx :
            /\ DOMAIN CandidatesOf(s)
                 = {t \in FileIdx :
                       /\ SharedCounter(s, t) >= 1
                       /\ SharedCounter(s, t)
                            >= FloorMul(Len(fileTrees[s].Leaves), threshold)}
            /\ \A t \in DOMAIN CandidatesOf(s) :
                  CandidatesOf(s)[t] = SharedCounter(s, t)

\* A source of three leaves at threshold 4/5 (bound 2, rounded up 3) with a
\* retained target of counter 2.
C24_Witness ==
    /\ pc = "visual"
    /\ \E s, t \in FileIdx :
          /\ s # t
          /\ Len(fileTrees[s].Leaves) = 3
          /\ SharedCounter(s, t) = 2
          /\ FloorMul(3, threshold) = 2
          /\ CeilMul(3, threshold) = 3
          /\ t \in DOMAIN CandidatesOf(s)

----------------------------------------------------------------------------
(* C25: the figures of a 'similar' group *)

\* The sum of the file sizes of the members of a group.
MemberSizes(group) ==
    SumOver(Range(group.Files),
            [path \in Range(group.Files) |-> fileTrees[IdxOfPath(path)].Size])

\* C25: every group of kind 'similar' of the result has Similarity 0.80, a
\* Size equal to the sum of the sizes of its member files, and Savings equal
\* to half of that size.
C25_SimilarGroupFigures ==
    Done =>
        \A k \in 1..Len(result.DuplicateGroups) :
            LET g == result.DuplicateGroups[k]
            IN  g.GroupType = "similar" =>
                   /\ FracEQ(g.Similarity, Frac(80, 100))
                   /\ g.Size = MemberSizes(g)
                   /\ g.Savings = MemberSizes(g) \div 2

----------------------------------------------------------------------------
(* C26: how the members of a group are related *)

\* The record of the file with the given path.
TreeOf(path) == fileTrees[IdxOfPath(path)]

\* The criterion of a group kind between two records, for 'similar' in the
\* direction a -> b.
Related(type, a, b) ==
    CASE type = "exact"   -> a.Root = b.Root
      [] type = "similar" -> FracGE(CompareFiles(a, b), Frac(80, 100))
      [] type = "visual"  -> FracGE(hashSimilarity(a.PHash, b.PHash), Frac(85, 100))

\* C26 as stated: in every group of the result ANY TWO members are related
\* by the criterion of the group's kind (for 'similar' in at least one
\* direction).
C26_MembersPairwiseRelated ==
    Done =>
        \A k \in 1..Len(result.DuplicateGroups) :
            LET g == result.DuplicateGroups[k]
            IN  \A x, y \in 1..Len(g.Files) :
                    x < y =>
                       \/ Related(g.GroupType, TreeOf(g.Files[x]), TreeOf(g.Files[y]))
                       \/ Related(g.GroupType, TreeOf(g.Files[y]), TreeOf(g.Files[x]))

\* C26 as amended: any two members of an 'exact' group have equal Merkle
\* roots; in a 'similar' and in a 'visual' group every member is related to
\* the SEED, the first member, by the criterion of the kind (chunk
\* similarity seed -> member at least 0.80, perceptual similarity at least
\* 0.85); members other than the seed need not be related to each other.
C26_MembersRelatedToSeed ==
    Done =>
        \A k \in 1..Len(result.DuplicateGroups) :
            LET g == result.DuplicateGroups[k]
            IN  /\ \A y \in 2..Len(g.Files) :
                      Related(g.GroupType, TreeOf(g.Files[1]), TreeOf(g.Files[y]))
                /\ g.GroupType = "exact" =>
                      \A x, y \in 1..Len(g.Files) :
                          TreeOf(g.Files[x]).Root = TreeOf(g.Files[y]).Root

\* A visual group of three whose two other members are each similar to the
\* seed and not to each other, and a 'similar' group in the same result.
C26_Witness ==
    /\ Done
    /\ \E k \in 1..Len(result.DuplicateGroups) :
          LET g == result.DuplicateGroups[k]
          IN  /\ g.GroupType = "visual"
              /\ Len(g.Files) = 3
              /\ Related("visual", TreeOf(g.Files[1]), TreeOf(g.Files[2]))
              /\ Related("visual", TreeOf(g.Files[1]), TreeOf(g.Files[3]))
              /\ ~Related("visual", TreeOf(g.Files[2]), TreeOf(g.Files[3]))
    /\ \E k \in 1..Len(result.DuplicateGroups) :
          result.DuplicateGroups[k].GroupType = "similar"

----------------------------------------------------------------------------
(* C27: the pre-filter loses no match *)

\* The targets a comparison of source s with every file that shares a chunk
\* with it would report: another file, of a different root, with
\* threshold <= CompareFiles(s, t) < 1.0.
UnfilteredTargets(s) ==
    {t \in FileIdx :
        /\ t # s
        /\ fileTrees[t].Root # fileTrees[s].Root
        /\ SharedCounter(s, t) >= 1
        /\ FracGE(CompareFiles(fileTrees[s], fileTrees[t]), threshold)
        /\ FracLT(CompareFiles(fileTrees[s], fileTrees[t]), Frac(1, 1))}

\* The partial match list of the record s, empty when it has none.
PartialListOf(s) ==
    IF fileTrees[s].Path \in DOMAIN partialDups.allMatches
    THEN partialDups.allMatches[fileTrees[s].Path]
    ELSE <<>>

\* C27: for every source s without exact match, the partial match list of s
\* holds exactly one entry for each target of UnfilteredTargets(s) and no
\* other entry: the counter pre-filter of FindCandidates drops no target
\* that the comparison would report.
C27_PreFilterLosesNoMatch ==
    pc = "visual" =>
        \A s \in FileIdx :
            NoExactMatch(s) =>
               /\ \A t \in UnfilteredTargets(s) :
                     CountTarget(PartialListOf(s), fileTrees[t].Path) = 1
               /\ Len(PartialListOf(s)) = Cardinality(UnfilteredTargets(s))

\* A source of five leaves at threshold 4/5 with a target whose counter is
\* exactly the bound 4 of the pre-filter, reported at similarity 4/5.
C27_Witness ==
    /\ pc = "visual"
    /\ \E s, t \in FileIdx :
          /\ NoExactMatch(s)
          /\ t \in UnfilteredTargets(s)
          /\ Len(fileTrees[s].Leaves) = 5
          /\ SharedCounter(s, t) = 4
          /\ FloorMul(5, threshold) = 4
          /\ CountTarget(PartialListOf(s), fileTrees[t].Path) = 1

----------------------------------------------------------------------------
(* C28: exact matches are not mixed with partial or visual ones *)

\* C28: in the result no match list holds an 'exact' entry together with a
\* 'partial' or 'visual' entry; the keys of the exact map are disjoint from
\* the keys of the partial map and of the visual map; FullDupCount and
\* PartialDupCount count disjoint sets of files, so that
\* 0 <= UniqueFiles <= TotalFiles.
C28_ExactKeysDisjoint ==
    Done =>
        /\ \A i \in FileIdx :
              HasMatchOfType(i, "exact") =>
                 ~HasMatchOfType(i, "partial") /\ ~HasMatchOfType(i, "visual")
        /\ DOMAIN exactDups.allMatches \cap DOMAIN partialDups.allMatches = {}
        /\ DOMAIN exactDups.allMatches \cap DOMAIN visualDups = {}
        /\ result.FullDupCount = Cardinality(DOMAIN exactDups.allMatches)
        /\ result.PartialDupCount = Cardinality(DOMAIN partialDups.allMatches)
        /\ result.FullDupCount + result.PartialDupCount <= result.TotalFiles
        /\ 0 <= result.UniqueFiles
        /\ result.UniqueFiles <= result.TotalFiles

\* Two byte-identical files and a third that matches them partially: the
\* exact map and the partial map both have keys, an exact file is the target
\* of a partial entry, and no file is unique.
C28_Witness ==
    /\ Done
    /\ DOMAIN exactDups.allMatches # {}
    /\ \E p \in DOMAIN partialDups.allMatches :
          \E k \in 1..Len(partialDups.allMatches[p]) :
              partialDups.allMatches[p][k].TargetPath \in DOMAIN exactDups.allMatches
    /\ result.UniqueFiles = 0
    /\ result.TotalFiles = 3

----------------------------------------------------------------------------
(* C29: ParallelRunThunks under every interleaving *)

\* C29: no thunk is run twice and no slot of results is assigned by two
\* workers; the caller never finds the job channel full; values of
\* numWorkers of 0 or less start one worker; as long as the call has not
\* returned some goroutine can take a step; and when it returns every
\* worker has left its loop, every thunk has been run exactly once and
\* results[i] is the value of thunks[i] for every i.
C29_EveryThunkOnceInItsSlot ==
    /\ \A i \in 1..Len(thunks) :
          /\ ran[i] <= 1
          /\ Cardinality(writers[i]) <= 1
    /\ (mainPc = "send" /\ Sent < Len(thunks)) =>
          Len(jobs) < JobsCap(Len(thunks))
    /\ mainPc \notin {"idle", "start"} =>
          /\ numWorkers = (IF numWorkersArg <= 0 THEN 1 ELSE numWorkersArg)
          /\ Len(workerState) <= numWorkers
    /\ mainPc \notin {"idle", "returned"} => ENABLED NextPar
    /\ mainPc = "returned" =>
          /\ Len(workerState) = numWorkers
          /\ \A w \in 1..Len(workerState) : workerState[w].pc = "exited"
          /\ \A i \in 1..Len(thunks) :
                /\ ran[i] = 1
                /\ results[i] = RunThunk(thunks[i])

\* The call has returned with three thunks run by two workers, each of
\* which has run at least one of them.
C29_Witness ==
    /\ mainPc = "returned"
    /\ Len(thunks) = 3
    /\ Len(workerState) = 2
    /\ \A w \in 1..2 : \E i \in 1..3 : w \in writers[i]
    /\ \E i, j \in 1..3 : results[i] # results[j]

----------------------------------------------------------------------------
(* C30: the MCP server answers every request and shuts down at EOF *)

\* The responses so far answer the requests decoded so far, one each and in
\* arrival order: the id is echoed, the response carries a result or an
\* error and not both, an unknown method gives code -32601 and a failed or
\* unknown tool call gives code -32603.
ResponsesMatchRequests ==
    /\ Len(stdout) = Len(served)
    /\ \A k \in 1..Len(stdout) :
          /\ stdout[k].id = served[k].id
          /\ stdout[k].result <=> stdout[k].code = 0
          /\ served[k].method \notin {"initialize", "tools/list", "tools/call"}
                => stdout[k].code = -32601
          /\ (served[k].method = "tools/call" /\ ~stdout[k].result)
                => stdout[k].code = -32603

\* C30: the responses match the requests read, and every iteration of the
\* request loop either consumes a value of the input or leaves the loop at
\* EOF, so that on every finite input stream, malformed values included,
\* the server reaches EOF and shuts down.
C30_AnswersAllAndShutsDown ==
    /\ []ResponsesMatchRequests
    /\ [][mcpPc = "loop" => (Len(stdin') < Len(stdin) \/ mcpPc' = "shutdown")]_vars

====
